---------------------------- MODULE Spec2Model ----------------------------
(***************************************************************************)
(* Verification model of the terminal emulator core of contour:            *)
(*   - the VT parser feeding BasicParserEvents / MouseTracker              *)
(*     (src/unnamed/part_000),                                             *)
(*   - Line<Cell> (src/unnamed/part_005),                                  *)
(*   - the screen and its scrollback (spec sections 3 and 4.3),            *)
(*   - TerminalSession and its threads (src/unnamed/part_004,              *)
(*     declarations in src/src/crispy/FontManager.cpp:507-859).            *)
(* Each subsystem has its own specification over its own variables; the    *)
(* variables of the other subsystems are held at their idle values.        *)
(***************************************************************************)
EXTENDS Integers, Sequences, FiniteSets, TLC

VARIABLES
    \* ---- MouseTracker (part_000) ----
    stdin,      \* bytes the terminal has sent that read() has not returned yet
    input,      \* history: every byte of stdin from the start
    mt,         \* the MouseTracker object: parser state, _sequence, line, column, _decrpm
    splitInside,\* history: some read() returned while a sequence was half parsed
    trackerPc,  \* where main() is: constructor, run(), destructor, or ended
    running,    \* MouseTracker::running
    termios,    \* the terminal's settings: "saved" (as at construction) or "raw"
    modes,      \* the terminal modes the program has enabled and not disabled
    disposition,\* per signal: "handler" (signalHandler) or "default"
    signalsLeft,\* signals the environment may still send
    reportsLeft,\* mouse reports the terminal may still send
    replyState, \* the state s of the terminal's DECRPM reply, -1 before it is sent
    supported,  \* what checkPassiveMouseTrackingSupport printed
    \* ---- Line<Cell> (part_005) ----
    line,       \* one Line object: flags_ and storage_
    lineOp,     \* history: the last operation applied to line, with what it saw
    \* ---- TerminalSession (part_004) ----
    display,              \* display_ != nullptr
    loopPc,               \* where the thread of screenUpdateThread_ is in mainLoop
    terminating,          \* terminating_
    dtorPc,               \* where ~TerminalSession is
    guiPc,                \* what the display (GUI) thread is doing
    posted,               \* the tasks given to display_->post, oldest first
    lockOwner,            \* the thread holding the terminal's lock
    ptyData,              \* reads' worth of output waiting in the PTY
    ptyBudget,            \* output the child may still produce
    ptyClosed,            \* the PTY is closed (the child is gone)
    wakePending,          \* wakeupReader's wake-up is waiting for the reader
    pendingInput,         \* input buffered in the terminal (hasInput() iff > 0)
    pendingBufferCapture, \* pendingBufferCapture_ holds a request
    captureDialogOpen,    \* the buffer capture dialog waits for an answer
    onClosedCalls,        \* history: calls of onClosed, with the calling thread
    calledAfterClosed,    \* history: processInputOnce was called after onClosed
    callsSinceWake,       \* history: processInputOnce calls begun after the destructor's wake-up
    flushers,             \* history: [thread, loopPc] of every run of flushInput
    changeFontPermission, \* profile_.permissions.changeFont
    captureBufferPermission, \* profile_.permissions.captureBuffer
    allowKeyMappings,     \* allowKeyMappings_
    lastActions,          \* history: the last call of executeAllActions and what it did
    rememberedPermissions,\* rememberedPermissions_: per role "allow", "deny" or "none"
    pendingFontChange,    \* pendingFontChange_ holds a request
    fontDialogOpen,       \* the font change dialog waits for an answer
    terminatedAndWaitingForKeyPress, \* terminatedAndWaitingForKeyPress_
    lastCall,             \* history: the last call of executeRole and what it did
    askedAgain,           \* history: roles asked for although an answer was remembered
    nullDeref,            \* history: functions that dereferenced a null display_
    \* ---- Screen and Grid of the terminal ----
    cursor,               \* [line, column], 0-based
    wrapPending,          \* autowrapPending
    autoWrap,             \* DECAWM
    margin,               \* the scrolling region [top, bottom)
    altActive,            \* the alternate screen is the current one
    page,                 \* the primary screen's page: its lines, top first
    history,              \* the scrollback, oldest line first
    evicted,              \* history: the lines that left the top of the whole page of the
                          \* primary screen, in order
    discarded,            \* history: the other lines scrolled out of a region
    nextId,               \* the next new line
    maxHistoryLineCount,  \* the grid's bound on the scrollback
    profileMaxHistory     \* profile_.maxHistoryLineCount

trackerVars == <<trackerPc, running, termios, modes, disposition, signalsLeft,
                 reportsLeft, replyState, supported>>
parserVars == <<stdin, input, mt, splitInside, trackerVars>>
lineVars   == <<line, lineOp>>
sessionVars == <<display, loopPc, terminating, dtorPc, guiPc, posted, lockOwner,
                 ptyData, ptyBudget, ptyClosed, wakePending, pendingInput,
                 pendingBufferCapture, captureDialogOpen, onClosedCalls,
                 calledAfterClosed, callsSinceWake, flushers,
                 changeFontPermission, captureBufferPermission,
                 allowKeyMappings, lastActions, rememberedPermissions, pendingFontChange,
                 fontDialogOpen, terminatedAndWaitingForKeyPress, lastCall,
                 askedAgain, nullDeref>>
permVars == <<changeFontPermission, captureBufferPermission,
                 allowKeyMappings, lastActions, rememberedPermissions, pendingFontChange,
              fontDialogOpen, terminatedAndWaitingForKeyPress, lastCall,
              askedAgain, nullDeref>>
screenVars == <<cursor, wrapPending, autoWrap, margin, altActive, page,
                history, evicted, discarded, nextId, maxHistoryLineCount,
                profileMaxHistory>>
vars       == <<stdin, input, mt, splitInside, trackerVars, line, lineOp, sessionVars,
                screenVars>>

(***************************************************************************)
(* Sequence helpers                                                        *)
(***************************************************************************)
Min(a, b) == IF a < b THEN a ELSE b
Max(a, b) == IF a > b THEN a ELSE b

Take(s, n) == SubSeq(s, 1, Min(n, Len(s)))
Drop(s, n) == SubSeq(s, n + 1, Len(s))
IsPrefix(p, s) == Len(p) <= Len(s) /\ SubSeq(s, 1, Len(p)) = p
IsSuffix(p, s) == Len(p) <= Len(s) /\ SubSeq(s, Len(s) - Len(p) + 1, Len(s)) = p

\* All sequences over S of length 0..n.
SeqsUpTo(S, n) == UNION { [1..k -> S] : k \in 0..n }

(***************************************************************************)
(* Bytes                                                                   *)
(***************************************************************************)
BEL == 7
ESC == 27
DOLLAR == 36
ZERO == 48
NINE == 57
COLON == 58
SEMI == 59
LT == 60
QM == 63
CHAR_M == 77
LBRACKET == 91
BACKSLASH == 92
RBRACKET == 93
CHAR_m == 109
CHAR_y == 121

\* The i-th small letter.
Letter(i) == 96 + i
IsDigit(b) == b >= ZERO /\ b <= NINE
D(n) == ZERO + n

(***************************************************************************)
(* Bounds of the model                                                     *)
(***************************************************************************)
\* Longest byte sequence drawn from the whole alphabet.
MaxLen == 4
\* Sequence::MaxOscLength, scaled down so that short inputs reach the
\* truncation.
MaxOscLength == 3
\* Longest parameter string of the CSI family of inputs.
MaxParamChars == 4
\* Largest colour component of the SGR 38 examples.
MaxColour == 2
\* char buf[128] of MouseTracker::processInput.
BufSize == 128
\* Widest line.
MaxColumns == 3
\* Reads' worth of output the child produces.
MaxPtyOutput == 2
\* Most input buffered in the terminal.
MaxPendingInput == 2
\* Most tasks waiting in the display's queue.
MaxPosted == 2
\* The page of a screen.
PageLines == 2
PageColumns == 2
\* The largest maxHistoryLineCount of a profile.
MaxHistory == 1
\* New lines a screen may scroll in.
MaxScrolledLines == 2
\* The largest numeric parameter of a control function.
MaxParam == 2
MaxSignals == 2
MaxReports == 1

(***************************************************************************)
(* The VT parser (terminal/Parser.h is not among the sources: the table is *)
(* the VT500 state machine the specification names in section 4.1, with    *)
(* ':' accepted as a parameter character, 7-bit input only).               *)
(***************************************************************************)
IsC0Exec(b) == (b >= 0 /\ b <= 23) \/ b = 25 \/ (b >= 28 /\ b <= 31)

Ev(k, c) == [ev |-> k, ch |-> c]

\* The action run when a state is left.
ExitEvents(state) ==
    CASE state = "OscString"      -> << Ev("dispatchOSC", 0) >>
      [] state = "DcsPassthrough" -> << Ev("unhook", 0) >>
      [] OTHER                    -> << >>

\* The action run when a state is entered.
EntryEvents(state, b) ==
    CASE state \in {"Escape", "CsiEntry", "DcsEntry"} -> << Ev("clear", 0) >>
      [] state = "OscString"                          -> << Ev("startOSC", 0) >>
      [] state = "DcsPassthrough"                     -> << Ev("hook", b) >>
      [] OTHER                                        -> << >>

\* [to |-> next state or "" for none, act |-> the transition's action or <<>>]
Stay(act) == [to |-> "", act |-> act]
Goto(state, act) == [to |-> state, act |-> act]

Transition(state, b) ==
    IF b = 24 \/ b = 26 THEN Goto("Ground", << Ev("execute", b) >>)
    ELSE IF b = ESC THEN Goto("Escape", << >>)
    ELSE CASE state = "Ground" ->
                IF IsC0Exec(b) THEN Stay(<< Ev("execute", b) >>)
                ELSE Stay(<< Ev("print", b) >>)
           [] state = "Escape" ->
                IF IsC0Exec(b) THEN Stay(<< Ev("execute", b) >>)
                ELSE IF b = 127 THEN Stay(<< >>)
                ELSE IF b >= 32 /\ b <= 47 THEN Goto("EscapeIntermediate", << Ev("collect", b) >>)
                ELSE IF b = 91 THEN Goto("CsiEntry", << >>)
                ELSE IF b = 93 THEN Goto("OscString", << >>)
                ELSE IF b = 80 THEN Goto("DcsEntry", << >>)
                ELSE IF b \in {88, 94, 95} THEN Goto("SosPmApcString", << >>)
                ELSE Goto("Ground", << Ev("dispatchESC", b) >>)
           [] state = "EscapeIntermediate" ->
                IF IsC0Exec(b) THEN Stay(<< Ev("execute", b) >>)
                ELSE IF b = 127 THEN Stay(<< >>)
                ELSE IF b >= 32 /\ b <= 47 THEN Stay(<< Ev("collect", b) >>)
                ELSE Goto("Ground", << Ev("dispatchESC", b) >>)
           [] state = "CsiEntry" ->
                IF IsC0Exec(b) THEN Stay(<< Ev("execute", b) >>)
                ELSE IF b = 127 THEN Stay(<< >>)
                ELSE IF b >= 32 /\ b <= 47 THEN Goto("CsiIntermediate", << Ev("collect", b) >>)
                ELSE IF b >= 48 /\ b <= 59 THEN Goto("CsiParam", << Ev("param", b) >>)
                ELSE IF b >= 60 /\ b <= 63 THEN Goto("CsiParam", << Ev("collectLeader", b) >>)
                ELSE Goto("Ground", << Ev("dispatchCSI", b) >>)
           [] state = "CsiParam" ->
                IF IsC0Exec(b) THEN Stay(<< Ev("execute", b) >>)
                ELSE IF b = 127 THEN Stay(<< >>)
                ELSE IF b >= 32 /\ b <= 47 THEN Goto("CsiIntermediate", << Ev("collect", b) >>)
                ELSE IF b >= 48 /\ b <= 59 THEN Stay(<< Ev("param", b) >>)
                ELSE IF b >= 60 /\ b <= 63 THEN Goto("CsiIgnore", << >>)
                ELSE Goto("Ground", << Ev("dispatchCSI", b) >>)
           [] state = "CsiIntermediate" ->
                IF IsC0Exec(b) THEN Stay(<< Ev("execute", b) >>)
                ELSE IF b = 127 THEN Stay(<< >>)
                ELSE IF b >= 32 /\ b <= 47 THEN Stay(<< Ev("collect", b) >>)
                ELSE IF b >= 48 /\ b <= 63 THEN Goto("CsiIgnore", << >>)
                ELSE Goto("Ground", << Ev("dispatchCSI", b) >>)
           [] state = "CsiIgnore" ->
                IF IsC0Exec(b) THEN Stay(<< Ev("execute", b) >>)
                ELSE IF b >= 64 /\ b <= 126 THEN Goto("Ground", << >>)
                ELSE Stay(<< >>)
           [] state = "OscString" ->
                IF b = BEL THEN Goto("Ground", << >>)
                ELSE IF b >= 32 THEN Stay(<< Ev("putOSC", b) >>)
                ELSE Stay(<< >>)
           [] state = "DcsEntry" ->
                IF b < 32 \/ b = 127 THEN Stay(<< >>)
                ELSE IF b >= 32 /\ b <= 47 THEN Goto("DcsIntermediate", << Ev("collect", b) >>)
                ELSE IF b = 58 THEN Goto("DcsIgnore", << >>)
                ELSE IF b >= 48 /\ b <= 59 THEN Goto("DcsParam", << Ev("param", b) >>)
                ELSE IF b >= 60 /\ b <= 63 THEN Goto("DcsParam", << Ev("collectLeader", b) >>)
                ELSE Goto("DcsPassthrough", << >>)
           [] state = "DcsParam" ->
                IF b < 32 \/ b = 127 THEN Stay(<< >>)
                ELSE IF b >= 32 /\ b <= 47 THEN Goto("DcsIntermediate", << Ev("collect", b) >>)
                ELSE IF b = 58 \/ (b >= 60 /\ b <= 63) THEN Goto("DcsIgnore", << >>)
                ELSE IF b >= 48 /\ b <= 59 THEN Stay(<< Ev("param", b) >>)
                ELSE Goto("DcsPassthrough", << >>)
           [] state = "DcsIntermediate" ->
                IF b < 32 \/ b = 127 THEN Stay(<< >>)
                ELSE IF b >= 32 /\ b <= 47 THEN Stay(<< Ev("collect", b) >>)
                ELSE IF b >= 48 /\ b <= 63 THEN Goto("DcsIgnore", << >>)
                ELSE Goto("DcsPassthrough", << >>)
           [] state = "DcsPassthrough" ->
                IF b = 127 THEN Stay(<< >>)
                ELSE Stay(<< Ev("put", b) >>)
           [] OTHER -> \* DcsIgnore, SosPmApcString: everything up to ST is ignored
                Stay(<< >>)

\* The events one byte produces in `state`, in order, and the state after it.
ParserStep(state, b) ==
    LET t == Transition(state, b)
    IN  IF t.to = ""
        THEN [state |-> state, evs |-> t.act]
        ELSE [state |-> t.to,
              evs   |-> ExitEvents(state) \o t.act \o EntryEvents(t.to, b)]

(***************************************************************************)
(* Sequence and SequenceParameterBuilder (terminal/Sequence.h is not among *)
(* the sources; modelled from sections 3 and 4.2 of the specification).    *)
(* A parameter is [value, subs]; the builder writes into the sequence's    *)
(* parameter storage and fixiate() publishes the count.                    *)
(***************************************************************************)
NoParam == [value |-> 0, subs |-> << >>]

\* Sequence::clearExceptParameters
clearExceptParameters(m) ==
    [m EXCEPT !.category = "C0", !.leader = 0, !.intermediates = << >>, !.finalChar = 0]

\* Sequence::clear
Sequence_clear(m) ==
    [clearExceptParameters(m) EXCEPT !.params = << >>, !.parameterCount = 0]

\* SequenceParameterBuilder::reset
PB_reset(m) == [m EXCEPT !.params = << NoParam >>, !.parameterCount = 0]

\* The builder's current parameter or sub-parameter.
PB_current(m) ==
    LET n == Len(m.params) IN
    IF n = 0 THEN 0
    ELSE LET p == m.params[n] IN
         IF Len(p.subs) = 0 THEN p.value ELSE p.subs[Len(p.subs)]

\* SequenceParameterBuilder::set
PB_set(m, v) ==
    LET n == Len(m.params) IN
    IF n = 0 THEN m
    ELSE LET k == Len(m.params[n].subs) IN
         IF k = 0
         THEN [m EXCEPT !.params[n].value = v]
         ELSE [m EXCEPT !.params[n].subs[k] = v]

\* SequenceParameterBuilder::multiplyBy10AndAdd
multiplyBy10AndAdd(m, d) == PB_set(m, PB_current(m) * 10 + d)

\* SequenceParameterBuilder::nextParameter
nextParameter(m) == [m EXCEPT !.params = Append(@, NoParam)]

\* SequenceParameterBuilder::nextSubParameter
nextSubParameter(m) ==
    LET n == Len(m.params) IN
    IF n = 0 THEN m ELSE [m EXCEPT !.params[n].subs = Append(@, 0)]

\* SequenceParameterBuilder::fixiate
fixiate(m) == [m EXCEPT !.parameterCount = Len(m.params)]

\* Sequence::param_or
param_or(m, i, default) ==
    IF i < m.parameterCount THEN m.params[i + 1].value ELSE default

\* The parameters a handler sees.
Parameters(m) == Take(m.params, m.parameterCount)

RECURSIVE DecimalValue(_)
DecimalValue(s) ==
    IF s = << >> THEN 0
    ELSE DecimalValue(SubSeq(s, 1, Len(s) - 1)) * 10 + (s[Len(s)] - ZERO)

DigitPrefixLen(s) ==
    CHOOSE k \in 0..Len(s) :
        /\ \A i \in 1..k : IsDigit(s[i])
        /\ (k < Len(s) => ~IsDigit(s[k + 1]))

\* parser::extractCodePrefix: the leading decimal code and how many bytes it
\* and the ';' after it take.
extractCodePrefix(s) ==
    LET i == DigitPrefixLen(s) IN
    [code      |-> DecimalValue(SubSeq(s, 1, i)),
     skipCount |-> IF i < Len(s) /\ s[i + 1] = SEMI THEN i + 1 ELSE i]

(***************************************************************************)
(* BasicParserEvents and MouseTracker (src/unnamed/part_000)               *)
(***************************************************************************)
\* The sequence as MouseTracker::handleSequence receives it.
SeenSequence(m) ==
    [category      |-> m.category,
     leader        |-> m.leader,
     intermediates |-> m.intermediates,
     finalChar     |-> m.finalChar,
     params        |-> Parameters(m)]

\* A plausible slip in handleSequence: a DECRPM reply is taken to have one
\* parameter.
handleSequence_oneParameter(m) ==
    LET logged == [m EXCEPT !.handled = Append(@, SeenSequence(m))]
        acted ==
            IF m.leader = LT /\ m.finalChar = CHAR_M
            THEN [logged EXCEPT !.column = param_or(m, 1, -2),
                                !.line   = param_or(m, 2, -2)]
            ELSE IF /\ m.leader = QM
                    /\ m.intermediates = << DOLLAR >>
                    /\ m.finalChar = CHAR_y
                    /\ m.parameterCount = 1
            THEN [logged EXCEPT !.decrpm = << m.params[1].value, m.params[2].value >>]
            ELSE logged
    IN  Sequence_clear(acted)
\* MouseTracker::handleSequence
handleSequence(m) ==
    LET logged == [m EXCEPT !.handled = Append(@, SeenSequence(m))]
        acted ==
            IF m.leader = LT /\ m.finalChar = CHAR_M
            THEN [logged EXCEPT !.column = param_or(m, 1, -2),
                                !.line   = param_or(m, 2, -2)]
            ELSE IF /\ m.leader = QM
                    /\ m.intermediates = << DOLLAR >>
                    /\ m.finalChar = CHAR_y
                    /\ m.parameterCount = 2
            THEN [logged EXCEPT !.decrpm = << m.params[1].value, m.params[2].value >>]
            ELSE logged
    IN  Sequence_clear(acted)

\* BasicParserEvents::collect
collect(m, c) == [m EXCEPT !.intermediates = Append(@, c)]

\* BasicParserEvents::collectLeader
collectLeader(m, c) == [m EXCEPT !.leader = c]

\* BasicParserEvents::clear
clear(m) == PB_reset(clearExceptParameters(m))

\* BasicParserEvents::paramDigit
paramDigit(m, c) == multiplyBy10AndAdd(m, c - ZERO)

\* BasicParserEvents::paramSeparator
paramSeparator(m) == nextParameter(m)

\* BasicParserEvents::paramSubSeparator
paramSubSeparator(m) == nextSubParameter(m)

\* A plausible slip in param: ':' handled like ';'.
param_colonAsSeparator(m, c) ==
    IF c = SEMI \/ c = COLON THEN paramSeparator(m)
    ELSE IF IsDigit(c) THEN paramDigit(m, c)
    ELSE m

\* BasicParserEvents::param
param(m, c) ==
    IF c = SEMI THEN paramSeparator(m)
    ELSE IF c = COLON THEN paramSubSeparator(m)
    ELSE IF IsDigit(c) THEN paramDigit(m, c)
    ELSE m

\* BasicParserEvents::executeSequenceHandler
executeSequenceHandler(m) == handleSequence(fixiate(m))

\* BasicParserEvents::dispatchESC
dispatchESC(m, c) ==
    executeSequenceHandler([m EXCEPT !.category = "ESC", !.finalChar = c])

\* BasicParserEvents::dispatchCSI
dispatchCSI(m, c) ==
    executeSequenceHandler([m EXCEPT !.category = "CSI", !.finalChar = c])

\* BasicParserEvents::startOSC (oscPut: history of the bytes put since)
startOSC(m) == [m EXCEPT !.category = "OSC", !.oscPut = << >>]

\* A plausible slip in putOSC: the length check is missing.
putOSC_unbounded(m, c) ==
    [m EXCEPT !.intermediates = Append(@, c), !.oscPut = Append(@, c)]

\* BasicParserEvents::putOSC
putOSC(m, c) ==
    IF Len(m.intermediates) + 1 < MaxOscLength
    THEN [m EXCEPT !.intermediates = Append(@, c), !.oscPut = Append(@, c)]
    ELSE [m EXCEPT !.oscPut = Append(@, c)]

\* BasicParserEvents::dispatchOSC (oscSeen: history of what each OSC was put)
dispatchOSC(m) ==
    LET r == extractCodePrefix(m.intermediates)
        coded == PB_set(m, r.code)
        erased == [coded EXCEPT !.intermediates = Drop(@, r.skipCount),
                                !.oscSeen = Append(@, m.oscPut)]
    IN  clear(executeSequenceHandler(erased))

\* BasicParserEvents::hook
hook(m, c) ==
    executeSequenceHandler([m EXCEPT !.category = "DCS", !.finalChar = c])

\* One parser event delivered to the BasicParserEvents overrides; print,
\* execute, put and unhook keep NullParserEvents' empty bodies.
Deliver(m, e) ==
    LET l == [m EXCEPT !.events = Append(@, e)] IN
    CASE e.ev = "collect"       -> collect(l, e.ch)
      [] e.ev = "collectLeader" -> collectLeader(l, e.ch)
      [] e.ev = "clear"         -> clear(l)
      [] e.ev = "param"         -> param(l, e.ch)
      [] e.ev = "dispatchESC"   -> dispatchESC(l, e.ch)
      [] e.ev = "dispatchCSI"   -> dispatchCSI(l, e.ch)
      [] e.ev = "startOSC"      -> startOSC(l)
      [] e.ev = "putOSC"        -> putOSC(l, e.ch)
      [] e.ev = "dispatchOSC"   -> dispatchOSC(l)
      [] e.ev = "hook"          -> hook(l, e.ch)
      [] OTHER                  -> l

RECURSIVE DeliverAll(_, _)
DeliverAll(m, evs) ==
    IF evs = << >> THEN m ELSE DeliverAll(Deliver(m, Head(evs)), Tail(evs))

\* One byte through the parser and its events through the tracker.
ProcessByte(m, b) ==
    LET r == ParserStep(m.state, b)
    IN  DeliverAll([m EXCEPT !.state = r.state], r.evs)

\* Parser::parseFragment: the bytes of one fragment in order; the parser
\* state and the sequence under construction are members and persist.
RECURSIVE parseFragment(_, _)
parseFragment(m, bytes) ==
    IF bytes = << >> THEN m
    ELSE LET next == ProcessByte(m, Head(bytes))
         IN  \* the comparison has each byte's result computed before the next
             IF next = next THEN parseFragment(next, Tail(bytes)) ELSE next

\* The MouseTracker as constructed.
NewMouseTracker ==
    [state |-> "Ground",
     category |-> "C0", leader |-> 0, intermediates |-> << >>, finalChar |-> 0,
     params |-> << >>, parameterCount |-> 0,
     line |-> -1, column |-> -1, decrpm |-> << >>,
     events |-> << >>, handled |-> << >>, oscPut |-> << >>, oscSeen |-> << >>]

(***************************************************************************)
(* MouseTracker reading its input (part_000:197-203)                       *)
(***************************************************************************)
\* A plausible slip in processInput: the last byte read is not parsed.
processInput_dropsLast(m, buf, n) ==
    IF n > 0 THEN parseFragment(m, SubSeq(buf, 1, n - 1)) ELSE m

\* MouseTracker::processInput, given what read() put into buf and returned.
processInput(m, buf, n) ==
    IF n > 0 THEN parseFragment(m, SubSeq(buf, 1, n)) ELSE m

\* The inputs the terminal may send.
Alphabet == {ESC, LBRACKET, RBRACKET, D(1), SEMI, CHAR_M, BEL}
GenericInputs == SeqsUpTo(Alphabet, MaxLen)

OscBodies == SeqsUpTo({D(8), SEMI, Letter(1)}, MaxOscLength + 1)
OscInputs ==
    { << ESC, RBRACKET >> \o body \o term :
        body \in OscBodies, term \in { << BEL >>, << ESC, BACKSLASH >> } }

ParamStrings == SeqsUpTo({D(1), D(2), SEMI, COLON}, MaxParamChars)
CsiInputs == { << ESC, LBRACKET >> \o ps \o << CHAR_m >> : ps \in ParamStrings }

\* SGR 38:2::R:G:B and SGR 38;2;R;G;B
Colours == 0..MaxColour
SgrColon(r, g, b) ==
    << ESC, LBRACKET, D(3), D(8), COLON, D(2), COLON, COLON,
       D(r), COLON, D(g), COLON, D(b), CHAR_m >>
SgrSemi(r, g, b) ==
    << ESC, LBRACKET, D(3), D(8), SEMI, D(2), SEMI,
       D(r), SEMI, D(g), SEMI, D(b), CHAR_m >>
SgrInputs ==
    { SgrColon(r, g, b) : r \in Colours, g \in Colours, b \in Colours }
    \cup { SgrSemi(r, g, b) : r \in Colours, g \in Colours, b \in Colours }

Inputs == GenericInputs \cup OscInputs \cup CsiInputs \cup SgrInputs

\* read() returns n > 0 bytes, at most sizeof(buf), and processInput parses them.
ProcessInput ==
    /\ stdin # << >>
    /\ \E n \in 1..Min(Len(stdin), BufSize) :
        /\ mt' = processInput(mt, Take(stdin, n), n)
        /\ stdin' = Drop(stdin, n)
        /\ splitInside' = (splitInside \/ (stdin' # << >> /\ mt'.state # "Ground"))
    /\ UNCHANGED <<input, trackerVars, lineVars, sessionVars, screenVars>>

\* read() returns 0 (end of input) or -1 (an error): nothing is parsed.
ProcessInputNothing ==
    /\ \E n \in {-1, 0} : mt' = processInput(mt, << >>, n)
    /\ UNCHANGED <<stdin, input, splitInside, trackerVars, lineVars, sessionVars,
                   screenVars>>

ParserNext == ProcessInput \/ ProcessInputNothing

(***************************************************************************)
(* MouseTracker from main() to the end of the program (part_000:141-193,   *)
(* 233-237), the terminal that answers it, and the signals it may get.     *)
(***************************************************************************)
\* The signals MouseTracker installs signalHandler for and that end a
\* program by default.
Signals == {"SIGINT", "SIGTERM"}

\* What the constructor enables: DEC modes 1003, 1006, 2022; hidden cursor.
EnabledModes == {"1003", "1006", "2022", "cursorHidden"}

\* The positions of main() inside run().
RunPcs == {"run", "check", "checkRead", "report", "loop", "loopRead"}

\* An SGR mouse report, CSI < 0 ; 1 ; 2 M.
MouseReport == << ESC, LBRACKET, LT, D(0), SEMI, D(1), SEMI, D(2), CHAR_M >>

\* The terminal's answer to CSI ? 2022 $ p: CSI ? 2022 ; s $ y.
DecrpmReply(s) ==
    << ESC, LBRACKET, QM, D(2), D(0), D(2), D(2), SEMI, D(s), DOLLAR, CHAR_y >>

\* The states s a DECRPM reply may carry.
DecrpmStates == 0..4

trackerRest == <<lineVars, sessionVars, screenVars>>

\* MouseTracker(): terminal settings saved and made raw, modes enabled,
\* signalHandler installed.
MouseTracker_ctor ==
    /\ trackerPc = "main"
    /\ termios' = "raw"
    /\ modes' = EnabledModes
    /\ disposition' = [sig \in Signals |-> "handler"]
    /\ trackerPc' = "run"
    /\ UNCHANGED <<stdin, input, mt, splitInside, running, signalsLeft, reportsLeft,
                   replyState, supported, trackerRest>>

\* ~MouseTracker(): saved settings applied, modes disabled, cursor shown.
MouseTracker_dtor ==
    /\ trackerPc = "dtor"
    /\ termios' = "saved"
    /\ modes' = {}
    /\ trackerPc' = "exited"
    /\ UNCHANGED <<stdin, input, mt, splitInside, running, disposition,
                   signalsLeft, reportsLeft, replyState, supported, trackerRest>>

\* checkPassiveMouseTrackingSupport: writeToTTY("\033[?2022$p")
checkPassiveMouseTrackingSupport_query ==
    /\ trackerPc = "run"
    /\ trackerPc' = "check"
    /\ UNCHANGED <<stdin, input, mt, splitInside, running, termios, modes,
                   disposition, signalsLeft, reportsLeft, replyState, supported,
                   trackerRest>>

\* checkPassiveMouseTrackingSupport: while (!_decrpm)
checkPassiveMouseTrackingSupport_while ==
    /\ trackerPc = "check"
    /\ trackerPc' = IF mt.decrpm = << >> THEN "checkRead" ELSE "report"
    /\ UNCHANGED <<stdin, input, mt, splitInside, running, termios, modes,
                   disposition, signalsLeft, reportsLeft, replyState, supported,
                   trackerRest>>

\* processInput() at position pc: read() blocks until the terminal has sent
\* bytes, returns n of them, and they are parsed; main() goes on at next.
processInput_at(pc, next) ==
    /\ trackerPc = pc
    /\ stdin # << >>
    /\ \E n \in 1..Min(Len(stdin), BufSize) :
        /\ stdin' = Drop(stdin, n)
        /\ mt' = processInput(mt, Take(stdin, n), n)
        /\ splitInside' = (splitInside \/ (stdin' # << >> /\ mt'.state # "Ground"))
    /\ trackerPc' = next
    /\ UNCHANGED <<input, running, termios, modes, disposition, signalsLeft,
                   reportsLeft, replyState, supported, trackerRest>>

\* checkPassiveMouseTrackingSupport: processInput()
checkPassiveMouseTrackingSupport_processInput == processInput_at("checkRead", "check")

\* checkPassiveMouseTrackingSupport: supported = state == 1 || state == 2
checkPassiveMouseTrackingSupport_print ==
    /\ trackerPc = "report"
    /\ supported' = IF mt.decrpm[2] = 1 \/ mt.decrpm[2] = 2
                    THEN "supported" ELSE "not supported"
    /\ trackerPc' = "loop"
    /\ UNCHANGED <<stdin, input, mt, splitInside, running, termios, modes,
                   disposition, signalsLeft, reportsLeft, replyState, trackerRest>>

\* run: while (running); after the loop run() returns and main() ends.
run_while ==
    /\ trackerPc = "loop"
    /\ trackerPc' = IF running THEN "loopRead" ELSE "dtor"
    /\ UNCHANGED <<stdin, input, mt, splitInside, running, termios, modes,
                   disposition, signalsLeft, reportsLeft, replyState, supported,
                   trackerRest>>

\* run: processInput()
run_processInput == processInput_at("loopRead", "loop")

\* Where main() is after signalHandler returned: a read() that was blocked
\* is begun again, or returns -1 (EINTR) and processInput parses nothing.
afterSignalHandler(pc) ==
    IF pc = "checkRead" THEN {"checkRead", "check"}
    ELSE IF pc = "loopRead" THEN {"loopRead", "loop"}
    ELSE {pc}

\* A signal arrives during run().  signalHandler: running = false;
\* signal(signo, SIG_DFL).  With the default disposition the signal ends
\* the program where it is.
signal ==
    /\ trackerPc \in RunPcs
    /\ signalsLeft > 0
    /\ signalsLeft' = signalsLeft - 1
    /\ \E signo \in Signals :
          IF disposition[signo] = "handler"
          THEN /\ running' = FALSE
               /\ disposition' = [disposition EXCEPT ![signo] = "default"]
               /\ trackerPc' \in afterSignalHandler(trackerPc)
          ELSE /\ trackerPc' = "killed"
               /\ UNCHANGED <<running, disposition>>
    /\ UNCHANGED <<stdin, input, mt, splitInside, termios, modes, reportsLeft,
                   replyState, supported, trackerRest>>

\* The terminal reports the mouse while mouse reporting is enabled.
terminalMouseReport ==
    /\ trackerPc \in RunPcs
    /\ "1003" \in modes
    /\ reportsLeft > 0
    /\ reportsLeft' = reportsLeft - 1
    /\ stdin' = stdin \o MouseReport
    /\ input' = input \o MouseReport
    /\ UNCHANGED <<mt, splitInside, trackerPc, running, termios, modes, disposition,
                   signalsLeft, replyState, supported, trackerRest>>

\* The terminal answers the query, once, with some state.
terminalReply ==
    /\ trackerPc \in {"check", "checkRead"}
    /\ replyState = -1
    /\ \E s \in DecrpmStates :
        /\ replyState' = s
        /\ stdin' = stdin \o DecrpmReply(s)
        /\ input' = input \o DecrpmReply(s)
    /\ UNCHANGED <<mt, splitInside, trackerPc, running, termios, modes, disposition,
                   signalsLeft, reportsLeft, supported, trackerRest>>

\* The steps of the program itself.
main ==
    \/ MouseTracker_ctor
    \/ checkPassiveMouseTrackingSupport_query
    \/ checkPassiveMouseTrackingSupport_while
    \/ checkPassiveMouseTrackingSupport_processInput
    \/ checkPassiveMouseTrackingSupport_print
    \/ run_while
    \/ run_processInput
    \/ MouseTracker_dtor

TrackerNext == main \/ signal \/ terminalMouseReport \/ terminalReply

(***************************************************************************)
(* Line<Cell> (src/unnamed/part_005)                                       *)
(*                                                                         *)
(* LineFlags are modelled as the set of the flags that are set.  A cell is *)
(* [codepoint, width, attrs]; codepoint 0 is the empty cell (Cell and      *)
(* inflate<Cell> are declared but not defined in the sources).             *)
(***************************************************************************)
AllLineFlags == {"Wrappable", "Wrapped", "Marked"}
Attributes == {0, 1}
SPACE == 32
TextChars == {SPACE, Letter(1), Letter(2)}

\* Cell::reset, Cell { attributes }
EmptyCell(attrs) == [codepoint |-> 0, width |-> 1, attrs |-> attrs]
Cell_reset(cell) == EmptyCell(0)
\* Cell::write
Cell_write(cell, attrs, codepoint, width) ==
    [codepoint |-> codepoint, width |-> width, attrs |-> attrs]
\* Cell::empty
Cell_empty(cell) == cell.codepoint = 0

\* TrivialLineBuffer { displayWidth, attributes }
TrivialBuffer(displayWidth, attrs) ==
    [kind |-> "trivial", displayWidth |-> displayWidth,
     textAttributes |-> attrs, fillAttributes |-> attrs, hyperlink |-> 0,
     usedColumns |-> 0, text |-> << >>]

InflatedBuffer(cells) == [kind |-> "inflated", cells |-> cells]

\* TrivialLineBuffer::reset
TrivialLineBuffer_reset(t, attrs) ==
    [t EXCEPT !.textAttributes = attrs, !.fillAttributes = attrs,
              !.hyperlink = 0, !.usedColumns = 0, !.text = << >>]

\* inflate<Cell>(TrivialLineBuffer const&): one cell per character of the
\* text, then empty cells with the fill attributes up to displayWidth.
inflate(t) ==
    [c \in 1..t.displayWidth |->
        IF c <= Len(t.text)
        THEN [codepoint |-> t.text[c], width |-> 1, attrs |-> t.textAttributes]
        ELSE EmptyCell(t.fillAttributes)]

\* Line::isTrivialBuffer
isTrivialBuffer(l) == l.storage.kind = "trivial"

\* Line::isInflatedBuffer
isInflatedBuffer(l) == ~isTrivialBuffer(l)

\* Line::inflatedBuffer(): the line after the call; a trivial line is unpacked.
inflatedBuffer(l) ==
    IF isTrivialBuffer(l)
    THEN [l EXCEPT !.storage = InflatedBuffer(inflate(l.storage))]
    ELSE l

\* Line::size
size(l) ==
    IF isTrivialBuffer(l) THEN l.storage.displayWidth
    ELSE Len(inflatedBuffer(l).storage.cells)

\* Line::empty
empty(l) ==
    IF isTrivialBuffer(l) THEN l.storage.text = << >>
    ELSE \A c \in 1..Len(l.storage.cells) : Cell_empty(l.storage.cells[c])

\* Line::cellEmptyAt(column), for a column the Require lines accept
cellEmptyAt(l, column) ==
    IF isTrivialBuffer(l)
    THEN \/ column >= Len(l.storage.text)
         \/ l.storage.text[column + 1] = SPACE
    ELSE Cell_empty(inflatedBuffer(l).storage.cells[column + 1])

\* A plausible slip in Line::reset: the new trivial buffer of an inflated
\* line is built without the line's width.
Line_reset_noWidth(l, flags, attrs) ==
    IF isTrivialBuffer(l)
    THEN [flags |-> flags, storage |-> TrivialLineBuffer_reset(l.storage, attrs)]
    ELSE [flags |-> flags, storage |-> TrivialBuffer(0, attrs)]

\* Line::reset(LineFlags, GraphicsAttributes)
Line_reset(l, flags, attrs) ==
    IF isTrivialBuffer(l)
    THEN [flags |-> flags, storage |-> TrivialLineBuffer_reset(l.storage, attrs)]
    ELSE [flags |-> flags,
          storage |-> TrivialBuffer(Len(inflatedBuffer(l).storage.cells), attrs)]

\* Line::fill(LineFlags, GraphicsAttributes const&, char32_t, uint8_t)
Line_fill(l, flags, attrs, codepoint, width) ==
    IF codepoint = 0 THEN Line_reset(l, flags, attrs)
    ELSE LET b == inflatedBuffer(l).storage.cells IN
         [flags |-> flags,
          storage |-> InflatedBuffer(
              [c \in 1..Len(b) |-> Cell_write(Cell_reset(b[c]), attrs, codepoint, width)])]

\* Line::useCellAt(column).write(...): the line after the write.
useCellAt_write(l, column, attrs, codepoint, width) ==
    LET b == inflatedBuffer(l) IN
    [b EXCEPT !.storage.cells[column + 1] = Cell_write(@, attrs, codepoint, width)]

\* A plausible slip in Line::useCellAt: the sentinel column is refused.
useCellAt_Require_noSentinel(sz, column) == 0 <= column /\ column < sz
\* Line::useCellAt(column): what it requires of the column.
useCellAt_Require(sz, column) == 0 <= column /\ column <= sz

\* Line::useCellAt(column), for a column its Require lines accept: the line
\* after the call and the index of the cell the returned reference names,
\* inflatedBuffer()[column].
useCellAt(l, column) == [line |-> inflatedBuffer(l), index |-> column]

\* A plausible slip in fill: the cells after the text are left as they were.
Line_fill_ascii_noReset(l, start, sgr, ascii) ==
    LET b == inflatedBuffer(l).storage.cells IN
    [l EXCEPT !.storage = InflatedBuffer(
        [c \in 1..Len(b) |->
            IF c > start /\ c <= start + Len(ascii)
            THEN Cell_write(b[c], sgr, ascii[c - start], 1)
            ELSE b[c]])]

\* Line::fill(ColumnOffset, GraphicsAttributes const&, std::string_view),
\* under its assertion start + |ascii| <= buffer.size(): the first loop
\* writes the characters from index start on, the second resets the cells
\* from there to the end of the buffer.
Line_fill_ascii(l, start, sgr, ascii) ==
    LET b == inflatedBuffer(l).storage.cells IN
    [l EXCEPT !.storage = InflatedBuffer(
        [c \in 1..Len(b) |->
            IF c > start /\ c <= start + Len(ascii)
            THEN Cell_write(b[c], sgr, ascii[c - start], 1)
            ELSE IF c > start + Len(ascii) THEN Cell_reset(b[c])
            ELSE b[c]])]

\* LineFlags::None
None == {}

\* Line::isFlagEnabled
isFlagEnabled(l, flag) == (l.flags \cap {flag}) # {}

\* Line::marked, wrapped, wrappable
marked(l) == isFlagEnabled(l, "Marked")
wrapped(l) == isFlagEnabled(l, "Wrapped")
wrappable(l) == isFlagEnabled(l, "Wrappable")

\* Line::wrappableFlag
wrappableFlag(l) == IF wrappable(l) THEN {"Wrappable"} ELSE None
\* Line::wrappedFlag: the test is marked()
wrappedFlag(l) == IF marked(l) THEN {"Wrapped"} ELSE None
\* Line::markedFlag
markedFlag(l) == IF marked(l) THEN {"Marked"} ELSE None

\* A plausible slip in inheritableFlags: Wrapped is among the inheritables.
inheritableFlags_all(l) == l.flags \cap {"Wrappable", "Marked", "Wrapped"}

\* Line::inheritableFlags
inheritableFlags(l) == l.flags \cap {"Wrappable", "Marked"}

\* Line::setFlag
setFlag(l, flag, enable) ==
    IF enable THEN [l EXCEPT !.flags = @ \cup {flag}]
    ELSE [l EXCEPT !.flags = @ \ {flag}]

\* Line::setMarked, setWrapped, setWrappable
setMarked(l, enable) == setFlag(l, "Marked", enable)
setWrapped(l, enable) == setFlag(l, "Wrapped", enable)
setWrappable(l, enable) == setFlag(l, "Wrappable", enable)

\* A plausible slip: the const overload returns without unpacking.
inflatedBuffer_const_keeps(l) == l

\* Line::inflatedBuffer() const: casts const away and calls the overload
\* above, which unpacks a trivial line in place.
inflatedBuffer_const(l) == inflatedBuffer(l)

(***************************************************************************)
(* Line: matchTextAt, search, searchReverse (part_005:345-475).  A text is *)
(* a sequence of codepoints, each one column wide; columns are 0-based.    *)
(***************************************************************************)
\* SearchResult { column, remainingText }: found is column.has_value().
SearchResult(found, column, remainingText) ==
    [found |-> found, column |-> column, remainingText |-> remainingText]
\* SearchResult {}
NotFound == SearchResult(FALSE, 0, 0)

\* A value converted to size_t; 2^30 stands for 2^64, beyond any length here.
SizeT(x) == x % (2^30)

\* std::string_view::npos
npos == SizeT(0 - 1)

\* unicode::convert_to<char>(text): the UTF-8 code units of the codepoints,
\* here for codepoints below U+0800.
RECURSIVE convert_to_char(_)
convert_to_char(text) ==
    IF text = << >> THEN << >>
    ELSE LET cp == Head(text) IN
         (IF cp < 128 THEN <<cp>>
          ELSE <<192 + (cp \div 64), 128 + (cp % 64)>>) \o convert_to_char(Tail(text))

\* std::string_view::find(t, pos): the first index >= pos where t begins.
StringFind(s, t, pos) ==
    LET at == { i \in pos..(Len(s) - Len(t)) : SubSeq(s, i + 1, i + Len(t)) = t }
    IN  IF at = {} THEN npos ELSE CHOOSE i \in at : \A j \in at : i <= j

\* std::string_view::rfind(t, pos): the last index <= pos where t begins.
StringRFind(s, t, pos) ==
    LET at == { i \in 0..Min(pos, Len(s) - Len(t)) : SubSeq(s, i + 1, i + Len(t)) = t }
    IN  IF at = {} THEN npos ELSE CHOOSE i \in at : \A j \in at : i >= j

\* CellUtil::beginsWith(text, cell): the text begins with the cell's codepoint.
beginsWith(text, cell) ==
    /\ ~Cell_empty(cell)
    /\ text # << >>
    /\ text[1] = cell.codepoint

\* The while loop of matchTextAt on an inflated line, from index i on.
RECURSIVE matchTextAt_loop(_, _, _, _)
matchTextAt_loop(cells, text, baseColumn, i) ==
    IF ~(i < Len(text)) THEN i = Len(text)
    ELSE IF ~beginsWith(Drop(text, i), cells[baseColumn + i + 1]) THEN FALSE
    ELSE matchTextAt_loop(cells, text, baseColumn, i + 1)

\* Line::matchTextAt(text, startColumn)
matchTextAt(l, text, startColumn) ==
    IF isTrivialBuffer(l)
    THEN LET buffer == l.storage
             column == Min(startColumn, buffer.usedColumns - 1)
         IN  IF buffer.usedColumns = 0 THEN FALSE
             ELSE IF SizeT(Len(text)) > SizeT(column - buffer.usedColumns) THEN FALSE
             ELSE StringFind(Drop(buffer.text, column), convert_to_char(text), column) = 0
    ELSE LET cells == l.storage.cells IN
         IF SizeT(Len(text)) > SizeT(size(l) - startColumn) THEN FALSE
         ELSE matchTextAt_loop(cells, text, startColumn, 0)

\* The while loop of search on an inflated line; text is what the removed
\* suffixes have left of the search text.
RECURSIVE search_loop(_, _, _, _)
search_loop(l, text, originalSize, baseColumn) ==
    LET bufferSize == Len(l.storage.cells) IN
    IF ~(baseColumn < bufferSize) THEN NotFound
    ELSE IF SizeT(bufferSize - baseColumn) < Len(text)
         THEN LET cut == Take(text, Len(text) - (Len(text) - (size(l) - baseColumn))) IN
              IF matchTextAt(l, cut, baseColumn)
              THEN SearchResult(FALSE, 0, originalSize - (bufferSize - baseColumn))
              ELSE search_loop(l, cut, originalSize, baseColumn + 1)
         ELSE IF matchTextAt(l, text, baseColumn)
              THEN SearchResult(TRUE, baseColumn, 0)
              ELSE search_loop(l, text, originalSize, baseColumn + 1)

\* Line::search(text, startColumn)
search(l, text, startColumn) ==
    IF isTrivialBuffer(l)
    THEN LET buffer == l.storage
             u8Text == convert_to_char(text)
             column == Min(startColumn, buffer.usedColumns - 1)
             resultIndex == StringFind(buffer.text, u8Text, column)
         IN  IF buffer.usedColumns = 0 THEN NotFound
             ELSE IF resultIndex # npos THEN SearchResult(TRUE, resultIndex, 0)
             ELSE NotFound
    ELSE IF Len(l.storage.cells) < Len(text) THEN NotFound
         ELSE search_loop(l, text, Len(text), startColumn)

\* The first while loop of searchReverse on an inflated line: the column
\* of the match, or -1 when the loop ends without one.
RECURSIVE searchReverse_match(_, _, _)
searchReverse_match(l, text, baseColumn) ==
    IF ~(baseColumn >= 0) THEN 0 - 1
    ELSE IF matchTextAt(l, text, baseColumn) THEN baseColumn
    ELSE searchReverse_match(l, text, baseColumn - 1)

\* The second while loop of searchReverse: text loses its prefix down to
\* baseColumn characters and is matched at the start of the line.
RECURSIVE searchReverse_partial(_, _, _, _)
searchReverse_partial(l, text, originalSize, baseColumn) ==
    IF ~(baseColumn >= 0) THEN NotFound
    ELSE LET cut == Drop(text, Len(text) - baseColumn) IN
         IF matchTextAt(l, cut, 0)
         THEN SearchResult(FALSE, 0, originalSize - baseColumn)
         ELSE searchReverse_partial(l, cut, originalSize, baseColumn - 1)

\* A plausible slip in searchReverse: the column to start at is passed over.
searchReverse_skipsStart(l, text, startColumn) ==
    IF isTrivialBuffer(l)
    THEN LET buffer == l.storage
             u8Text == convert_to_char(text)
             column == Min(startColumn, buffer.usedColumns - 1)
             resultIndex == StringRFind(buffer.text, u8Text, column - 1)
         IN  IF buffer.usedColumns = 0 \/ column = 0 THEN NotFound
             ELSE IF resultIndex # npos THEN SearchResult(TRUE, resultIndex, 0)
             ELSE NotFound
    ELSE IF Len(l.storage.cells) < Len(text) THEN NotFound
         ELSE LET baseColumn == Min(startColumn, Len(l.storage.cells) - Len(text))
                  c == searchReverse_match(l, text, baseColumn - 1)
              IN  IF c >= 0 THEN SearchResult(TRUE, c, 0)
                  ELSE searchReverse_partial(l, text, Len(text), Len(text) - 1)

\* Line::searchReverse(text, startColumn)
searchReverse(l, text, startColumn) ==
    IF isTrivialBuffer(l)
    THEN LET buffer == l.storage
             u8Text == convert_to_char(text)
             column == Min(startColumn, buffer.usedColumns - 1)
             resultIndex == StringRFind(buffer.text, u8Text, column)
         IN  IF buffer.usedColumns = 0 THEN NotFound
             ELSE IF resultIndex # npos THEN SearchResult(TRUE, resultIndex, 0)
             ELSE NotFound
    ELSE IF Len(l.storage.cells) < Len(text) THEN NotFound
         ELSE LET baseColumn == Min(startColumn, Len(l.storage.cells) - Len(text))
                  c == searchReverse_match(l, text, baseColumn)
              IN  IF c >= 0 THEN SearchResult(TRUE, c, 0)
                  ELSE searchReverse_partial(l, text, Len(text), Len(text) - 1)

\* The lines a grid creates: trivial, of some width, with ASCII text.
TrivialLines ==
    { [flags |-> f,
       storage |-> [TrivialBuffer(w, a) EXCEPT !.text = t, !.usedColumns = Len(t)]] :
        f \in SUBSET AllLineFlags, w \in 1..MaxColumns, a \in Attributes,
        t \in SeqsUpTo(TextChars, MaxColumns) } 

NoLineOp == [op |-> "none", sizeBefore |-> 0, flags |-> {}, wasInflated |-> FALSE,
             wasEmpty |-> TRUE, text |-> << >>, start |-> 0, result |-> NotFound]
LineOp(name, l, flags) ==
    [op |-> name, sizeBefore |-> size(l), flags |-> flags,
     wasInflated |-> isInflatedBuffer(l), wasEmpty |-> empty(l),
     text |-> << >>, start |-> 0, result |-> NotFound]

IdleLine == [flags |-> {}, storage |-> TrivialBuffer(1, 0)]

InitialLines == { l \in TrivialLines : Len(l.storage.text) <= l.storage.displayWidth }

LineReset ==
    /\ \E f \in SUBSET AllLineFlags, a \in Attributes :
        /\ line' = Line_reset(line, f, a)
        /\ lineOp' = LineOp("reset", line, f)
    /\ UNCHANGED <<parserVars, sessionVars, screenVars>>

LineFill ==
    /\ \E f \in {{}, {"Wrappable"}}, a \in Attributes, cp \in {0, Letter(1)}, w \in {1, 2} :
        /\ line' = Line_fill(line, f, a, cp, w)
        /\ lineOp' = LineOp(IF cp = 0 THEN "fill0" ELSE "fill", line, f)
    /\ UNCHANGED <<parserVars, sessionVars, screenVars>>

LineWriteCell ==
    /\ \E c \in 0..(size(line) - 1), a \in Attributes, cp \in {Letter(1), Letter(2)} :
        /\ line' = useCellAt_write(line, c, a, cp, 1)
        /\ lineOp' = LineOp("write", line, line.flags)
    /\ UNCHANGED <<parserVars, sessionVars, screenVars>>

LineNext == LineReset \/ LineFill \/ LineWriteCell

(***************************************************************************)
(* Searching and reading a line.  Each behaviour applies one operation to  *)
(* a line a grid can hold: a trivial line, the same line unpacked, or a    *)
(* line a cell of which was written.                                       *)
(***************************************************************************)
MaxTextLen == MaxColumns + 1

SearchTexts == SeqsUpTo({Letter(1), Letter(2)}, MaxTextLen) \ {<< >>}

PlainLines == { l \in InitialLines : l.flags = {} /\ l.storage.textAttributes = 0 }

SearchLines ==
    PlainLines
    \cup { inflatedBuffer(l) : l \in PlainLines }
    \cup UNION { { useCellAt_write(l, c, 0, Letter(1), 1) : c \in 0..(size(l) - 1) } :
                 l \in PlainLines }

\* The line after a const member function that takes the inflated path:
\* the trivial path returns before any call of inflatedBuffer().
afterConstCall(l) == IF isTrivialBuffer(l) THEN l ELSE inflatedBuffer(l)

SearchOp(name, l, text, start, result) ==
    [LineOp(name, l, l.flags) EXCEPT !.text = text, !.start = start, !.result = result]

LineSearch ==
    /\ lineOp.op = "none"
    /\ \E text \in SearchTexts, start \in 0..(size(line) - 1) :
        /\ line' = afterConstCall(line)
        /\ lineOp' = SearchOp("search", line, text, start, search(line, text, start))
    /\ UNCHANGED <<parserVars, sessionVars, screenVars>>

LineSearchReverse ==
    /\ lineOp.op = "none"
    /\ \E text \in SearchTexts, start \in 0..(size(line) - 1) :
        /\ line' = afterConstCall(line)
        /\ lineOp' = SearchOp("searchReverse", line, text, start,
                              searchReverse(line, text, start))
    /\ UNCHANGED <<parserVars, sessionVars, screenVars>>

\* matchTextAt: the answer is recorded in result.found.
LineMatchTextAt ==
    /\ lineOp.op = "none"
    /\ \E text \in SearchTexts, start \in 0..(size(line) - 1) :
        /\ line' = afterConstCall(line)
        /\ lineOp' = SearchOp("matchTextAt", line, text, start,
                              SearchResult(matchTextAt(line, text, start), 0, 0))
    /\ UNCHANGED <<parserVars, sessionVars, screenVars>>

\* cells() const { return inflatedBuffer(); }
LineCells ==
    /\ lineOp.op = "none"
    /\ line' = inflatedBuffer_const(line)
    /\ lineOp' = LineOp("cells", line, line.flags)
    /\ UNCHANGED <<parserVars, sessionVars, screenVars>>

LineInflatedBufferConst ==
    /\ lineOp.op = "none"
    /\ line' = inflatedBuffer_const(line)
    /\ lineOp' = LineOp("inflatedBuffer", line, line.flags)
    /\ UNCHANGED <<parserVars, sessionVars, screenVars>>

\* cellEmptyAt(column), cellWidthAt(column), empty(), size()
LineQuery ==
    /\ lineOp.op = "none"
    /\ \E name \in {"cellEmptyAt", "cellWidthAt", "empty", "size"},
          column \in 0..(size(line) - 1) :
        /\ line' = afterConstCall(line)
        /\ lineOp' = SearchOp(name, line, << >>, column, NotFound)
    /\ UNCHANGED <<parserVars, sessionVars, screenVars>>

SearchNext ==
    \/ LineSearch
    \/ LineSearchReverse
    \/ LineMatchTextAt
    \/ LineCells
    \/ LineInflatedBufferConst
    \/ LineQuery
    \/ LineWriteCell

(***************************************************************************)
(* Flags, cell access and fill of a line.  Each behaviour applies one      *)
(* operation to a line a grid can hold, with any flags and attributes; the *)
(* line before the call is kept in lineOp.before.                          *)
(***************************************************************************)
OpLines ==
    InitialLines
    \cup { inflatedBuffer(l) : l \in InitialLines }
    \cup UNION { { useCellAt_write(l, c, 1, Letter(2), 1) : c \in 0..(size(l) - 1) } :
                 l \in InitialLines }

\* The characters fill is given.
AsciiTexts(n) == SeqsUpTo({Letter(1), Letter(2)}, n)

FrameOp(name, l, flags, start, attrs, text, enable, answer) ==
    [op |-> name, sizeBefore |-> size(l), flags |-> flags,
     wasInflated |-> isInflatedBuffer(l), wasEmpty |-> empty(l),
     text |-> text, start |-> start, result |-> NotFound,
     before |-> l, attrs |-> attrs, enable |-> enable, answer |-> answer]

\* useCellAt(column) with a column its two Require lines accept
LineUseCellAt ==
    /\ lineOp.op = "none"
    /\ \E column \in (0 - 1)..(size(line) + 1) :
        /\ useCellAt_Require(size(line), column)
        /\ line' = useCellAt(line, column).line
        /\ lineOp' = FrameOp("useCellAt", line, {}, column, 0, << >>, FALSE,
                             useCellAt(line, column).index)
    /\ UNCHANGED <<parserVars, sessionVars, screenVars>>

\* wrappableFlag(), wrappedFlag(), markedFlag(), inheritableFlags()
LineFlagQuery ==
    /\ lineOp.op = "none"
    /\ line' = line
    /\ \/ lineOp' = FrameOp("wrappableFlag", line, {"Wrappable"}, 0, 0, << >>, FALSE,
                            wrappableFlag(line))
       \/ lineOp' = FrameOp("wrappedFlag", line, {"Wrapped"}, 0, 0, << >>, FALSE,
                            wrappedFlag(line))
       \/ lineOp' = FrameOp("markedFlag", line, {"Marked"}, 0, 0, << >>, FALSE,
                            markedFlag(line))
       \/ lineOp' = FrameOp("inheritableFlags", line, {}, 0, 0, << >>, FALSE,
                            inheritableFlags(line))
    /\ UNCHANGED <<parserVars, sessionVars, screenVars>>

\* setWrappable(enable), setWrapped(enable), setMarked(enable)
LineSetFlag ==
    /\ lineOp.op = "none"
    /\ \E enable \in BOOLEAN :
        \/ /\ line' = setWrappable(line, enable)
           /\ lineOp' = FrameOp("setFlag", line, {"Wrappable"}, 0, 0, << >>, enable, 0)
        \/ /\ line' = setWrapped(line, enable)
           /\ lineOp' = FrameOp("setFlag", line, {"Wrapped"}, 0, 0, << >>, enable, 0)
        \/ /\ line' = setMarked(line, enable)
           /\ lineOp' = FrameOp("setFlag", line, {"Marked"}, 0, 0, << >>, enable, 0)
    /\ UNCHANGED <<parserVars, sessionVars, screenVars>>

\* fill(start, sgr, ascii) with start + |ascii| <= size()
LineFillAscii ==
    /\ lineOp.op = "none"
    /\ \E start \in 0..size(line), sgr \in Attributes :
        \E ascii \in AsciiTexts(size(line) - start) :
            /\ line' = Line_fill_ascii(line, start, sgr, ascii)
            /\ lineOp' = FrameOp("fillAscii", line, {}, start, sgr, ascii, FALSE, 0)
    /\ UNCHANGED <<parserVars, sessionVars, screenVars>>

LineOpsNext == LineUseCellAt \/ LineFlagQuery \/ LineSetFlag \/ LineFillAscii

(***************************************************************************)
(* TerminalSession: the main loop thread, the display thread, the          *)
(* destructor (part_004).  The terminal, its lock and the PTY are not part *)
(* of the sources at hand; their steps follow the specification.           *)
(***************************************************************************)
\* The thread of screenUpdateThread_ is inside terminal_.processInputOnce().
InProcessInputOnce == loopPc \in {"read", "lock", "apply"}
\* The thread of screenUpdateThread_ applies the bytes of a read to the screen.
ioInScreen == loopPc = "apply"
\* The display thread reads or writes the screen.
guiInScreen == guiPc \in {"ScreenshotVT", "captureBuffer"}
\* The session object exists and its destructor has not begun.
Alive == dtorPc = "alive"
\* The display thread is free to run a handler.
GuiIdle == Alive /\ guiPc = "idle"

\* display_->post(task)
post(queue, task) == Append(queue, task)

\* Terminal::flushInput() writes buffered input to the PTY; what the PTY
\* does not take stays buffered.
Terminal_flushInput(n) == 0 .. n

\* mainLoop, line 336-340: where the loop goes after processInputOnce returned.
afterProcessInputOnce(result) == IF result THEN "while" ELSE "onClosed"

\* A plausible slip in mainLoop: onClosed() inside the loop.
afterOnClosed_loops == "while"
\* mainLoop, line 343-344: onClosed() is the last statement.
afterOnClosed == "done"

\* GuardedRole
Roles == {"ChangeFont", "CaptureBuffer"}
\* config::Permission
Permissions == {"Allow", "Deny", "Ask"}
\* The standardButtons of RequestPermission.qml.
Buttons == {"Yes", "YesToAll", "No", "NoToAll", "Abort"}
\* No call of executeRole yet.
NoCall == [role |-> "none", allow |-> FALSE, remember |-> FALSE, source |-> "none",
           button |-> "none", remembered |-> "none", pending |-> FALSE,
           effect |-> FALSE]

\* No call of executeAllActions yet.
NoActions == [actions |-> << >>, allowedBefore |-> TRUE, executed |-> << >>,
              result |-> 0, called |-> FALSE, hyperlink |-> FALSE]

sessionRest == <<parserVars, lineVars, screenVars, permVars>>

\* attachDisplay: the session gets its display.
attachDisplay ==
    /\ GuiIdle /\ ~display
    /\ display' = TRUE
    /\ UNCHANGED <<loopPc, terminating, dtorPc, guiPc, posted, lockOwner, ptyData,
                   ptyBudget, ptyClosed, wakePending, pendingInput,
                   pendingBufferCapture, captureDialogOpen, onClosedCalls,
                   calledAfterClosed, callsSinceWake, flushers, sessionRest>>

\* start(): the device is started and the thread running mainLoop is made.
start ==
    /\ GuiIdle /\ loopPc = "none"
    /\ loopPc' = "while"
    /\ UNCHANGED <<display, terminating, dtorPc, guiPc, posted, lockOwner, ptyData,
                   ptyBudget, ptyClosed, wakePending, pendingInput,
                   pendingBufferCapture, captureDialogOpen, onClosedCalls,
                   calledAfterClosed, callsSinceWake, flushers, sessionRest>>

\* mainLoop: while (!terminating_)
mainLoop_while ==
    /\ loopPc = "while"
    /\ loopPc' = IF ~terminating THEN "call" ELSE "onClosed"
    /\ UNCHANGED <<display, terminating, dtorPc, guiPc, posted, lockOwner, ptyData,
                   ptyBudget, ptyClosed, wakePending, pendingInput,
                   pendingBufferCapture, captureDialogOpen, onClosedCalls,
                   calledAfterClosed, callsSinceWake, flushers, sessionRest>>

\* mainLoop: terminal_.processInputOnce() is entered.
mainLoop_processInputOnce ==
    /\ loopPc = "call"
    /\ loopPc' = "read"
    /\ calledAfterClosed' = (calledAfterClosed \/ onClosedCalls # << >>)
    /\ callsSinceWake' = IF dtorPc \in {"join", "destroyed"}
                         THEN callsSinceWake + 1 ELSE callsSinceWake
    /\ UNCHANGED <<display, terminating, dtorPc, guiPc, posted, lockOwner, ptyData,
                   ptyBudget, ptyClosed, wakePending, pendingInput,
                   pendingBufferCapture, captureDialogOpen, onClosedCalls,
                   flushers, sessionRest>>

\* processInputOnce reads the PTY: it blocks until there is output, a
\* wake-up or the end of the PTY.  A wake-up makes it return true without
\* bytes, the end of the PTY makes it return false.
processInputOnce_read ==
    /\ loopPc = "read"
    /\ \/ /\ wakePending
          /\ wakePending' = FALSE
          /\ loopPc' = afterProcessInputOnce(TRUE)
          /\ UNCHANGED ptyData
       \/ /\ ptyData > 0
          /\ ptyData' = ptyData - 1
          /\ loopPc' = "lock"
          /\ UNCHANGED wakePending
       \/ /\ ptyClosed /\ ptyData = 0
          /\ loopPc' = afterProcessInputOnce(FALSE)
          /\ UNCHANGED <<ptyData, wakePending>>
    /\ UNCHANGED <<display, terminating, dtorPc, guiPc, posted, lockOwner,
                   ptyBudget, ptyClosed, pendingInput,
                   pendingBufferCapture, captureDialogOpen, onClosedCalls,
                   calledAfterClosed, callsSinceWake, flushers, sessionRest>>

\* processInputOnce takes the terminal's lock to apply the bytes it read.
processInputOnce_lock ==
    /\ loopPc = "lock" /\ lockOwner = "none"
    /\ lockOwner' = "io"
    /\ loopPc' = "apply"
    /\ UNCHANGED <<display, terminating, dtorPc, guiPc, posted, ptyData,
                   ptyBudget, ptyClosed, wakePending, pendingInput,
                   pendingBufferCapture, captureDialogOpen, onClosedCalls,
                   calledAfterClosed, callsSinceWake, flushers, sessionRest>>

\* While the bytes are applied the terminal queues a reply to the application.
reply ==
    /\ loopPc = "apply" /\ pendingInput < MaxPendingInput
    /\ pendingInput' = pendingInput + 1
    /\ UNCHANGED <<display, loopPc, terminating, dtorPc, guiPc, posted, lockOwner,
                   ptyData, ptyBudget, ptyClosed, wakePending,
                   pendingBufferCapture, captureDialogOpen, onClosedCalls,
                   calledAfterClosed, callsSinceWake, flushers, sessionRest>>

\* A plausible slip in screenUpdated: flushInput is called, not posted.
screenUpdated_flushesItself ==
    /\ loopPc = "apply"
    /\ display
    /\ pendingInput > 0
    /\ \E left \in Terminal_flushInput(pendingInput) : pendingInput' = left
    /\ flushers' = flushers \cup {[thread |-> "io", loop |-> loopPc]}
    /\ UNCHANGED <<display, loopPc, terminating, dtorPc, guiPc, posted, lockOwner,
                   ptyData, ptyBudget, ptyClosed, wakePending,
                   pendingBufferCapture, captureDialogOpen, onClosedCalls,
                   calledAfterClosed, callsSinceWake, sessionRest>>
\* screenUpdated(), called by the terminal while the bytes are applied:
\* with a display and buffered input it posts flushInput to the display.
screenUpdated ==
    /\ loopPc = "apply"
    /\ IF display /\ pendingInput > 0
       THEN /\ Len(posted) < MaxPosted
            /\ posted' = post(posted, "flushInput")
       ELSE UNCHANGED posted
    /\ UNCHANGED <<display, loopPc, terminating, dtorPc, guiPc, lockOwner,
                   ptyData, ptyBudget, ptyClosed, wakePending, pendingInput,
                   pendingBufferCapture, captureDialogOpen, onClosedCalls,
                   calledAfterClosed, callsSinceWake, flushers, sessionRest>>

\* requestCaptureBuffer(lines, logical), called by the terminal while the
\* bytes are applied.
requestCaptureBuffer ==
    /\ loopPc = "apply"
    /\ IF ~display
       THEN UNCHANGED <<pendingBufferCapture, captureDialogOpen, askedAgain>>
       ELSE /\ pendingBufferCapture' = TRUE
            /\ captureDialogOpen' = TRUE
            /\ askedAgain' = IF rememberedPermissions["CaptureBuffer"] # "none"
                             THEN askedAgain \cup {"CaptureBuffer"} ELSE askedAgain
    /\ UNCHANGED <<display, loopPc, terminating, dtorPc, guiPc, posted, lockOwner,
                   ptyData, ptyBudget, ptyClosed, wakePending, pendingInput,
                   onClosedCalls, calledAfterClosed, callsSinceWake, flushers,
                   changeFontPermission, captureBufferPermission,
                 allowKeyMappings, lastActions, rememberedPermissions, pendingFontChange,
                   fontDialogOpen, terminatedAndWaitingForKeyPress, lastCall,
                   nullDeref, parserVars, lineVars, screenVars>>

\* processInputOnce has applied the bytes, gives the lock back and returns true.
processInputOnce_return ==
    /\ loopPc = "apply"
    /\ lockOwner' = "none"
    /\ loopPc' = afterProcessInputOnce(TRUE)
    /\ UNCHANGED <<display, terminating, dtorPc, guiPc, posted, ptyData,
                   ptyBudget, ptyClosed, wakePending, pendingInput,
                   pendingBufferCapture, captureDialogOpen, onClosedCalls,
                   calledAfterClosed, callsSinceWake, flushers, sessionRest>>

\* mainLoop: onClosed(), then the thread ends.  When the process ended
\* before earlyExitThreshold the session waits for a key press; else the
\* display, if there is one, is closed.
onClosed ==
    /\ loopPc = "onClosed"
    /\ onClosedCalls' = Append(onClosedCalls, [thread |-> "io", terminating |-> terminating,
                                               closed |-> ptyClosed])
    /\ loopPc' = afterOnClosed
    /\ \E early \in BOOLEAN :
          terminatedAndWaitingForKeyPress' = (terminatedAndWaitingForKeyPress \/ early)
    /\ UNCHANGED <<display, terminating, dtorPc, guiPc, posted, lockOwner, ptyData,
                   ptyBudget, ptyClosed, wakePending, pendingInput,
                   pendingBufferCapture, captureDialogOpen,
                   calledAfterClosed, callsSinceWake, flushers,
                   changeFontPermission, captureBufferPermission,
                 allowKeyMappings, lastActions, rememberedPermissions, pendingFontChange,
                   fontDialogOpen, lastCall, askedAgain, nullDeref,
                   parserVars, lineVars, screenVars>>

\* The steps of the thread of screenUpdateThread_ that mainLoop must take.
mainLoop ==
    \/ mainLoop_while
    \/ mainLoop_processInputOnce
    \/ processInputOnce_read
    \/ processInputOnce_lock
    \/ processInputOnce_return
    \/ onClosed

\* sendCharPressEvent: the terminal buffers the encoded input.
sendCharPressEvent ==
    /\ GuiIdle /\ display
    /\ pendingInput < MaxPendingInput
    /\ pendingInput' = pendingInput + 1
    /\ UNCHANGED <<display, loopPc, terminating, dtorPc, guiPc, posted, lockOwner,
                   ptyData, ptyBudget, ptyClosed, wakePending,
                   pendingBufferCapture, captureDialogOpen, onClosedCalls,
                   calledAfterClosed, callsSinceWake, flushers, sessionRest>>

\* The display runs the oldest posted task: flushInput() begins.
flushInput_posted ==
    /\ GuiIdle /\ posted # << >>
    /\ Head(posted) = "flushInput"
    /\ posted' = Tail(posted)
    /\ guiPc' = "flushInput"
    /\ UNCHANGED <<display, loopPc, terminating, dtorPc, lockOwner,
                   ptyData, ptyBudget, ptyClosed, wakePending, pendingInput,
                   pendingBufferCapture, captureDialogOpen, onClosedCalls,
                   calledAfterClosed, callsSinceWake, flushers, sessionRest>>

\* A plausible slip in flushInput: what stays buffered is not flushed again.
flushInput_noRepost ==
    /\ guiPc = "flushInput"
    /\ \E left \in Terminal_flushInput(pendingInput) : pendingInput' = left
    /\ flushers' = flushers \cup {[thread |-> "gui", loop |-> loopPc]}
    /\ guiPc' = "idle"
    /\ UNCHANGED <<display, loopPc, terminating, dtorPc, lockOwner, posted,
                   ptyData, ptyBudget, ptyClosed, wakePending,
                   pendingBufferCapture, captureDialogOpen, onClosedCalls,
                   calledAfterClosed, callsSinceWake, sessionRest>>

\* flushInput(): terminal().flushInput(), and what stays buffered is flushed
\* by a task posted anew.
flushInput ==
    /\ guiPc = "flushInput"
    /\ \E left \in Terminal_flushInput(pendingInput) :
          /\ pendingInput' = left
          /\ IF left > 0 /\ display
             THEN /\ Len(posted) < MaxPosted
                  /\ posted' = post(posted, "flushInput")
             ELSE UNCHANGED posted
    /\ flushers' = flushers \cup {[thread |-> "gui", loop |-> loopPc]}
    /\ guiPc' = "idle"
    /\ UNCHANGED <<display, loopPc, terminating, dtorPc, lockOwner,
                   ptyData, ptyBudget, ptyClosed, wakePending,
                   pendingBufferCapture, captureDialogOpen, onClosedCalls,
                   calledAfterClosed, callsSinceWake, sessionRest>>

\* operator()(actions::ScreenshotVT): lock_guard { terminal() } is taken.
ScreenshotVT_lock ==
    /\ GuiIdle /\ lockOwner = "none"
    /\ lockOwner' = "gui"
    /\ guiPc' = "ScreenshotVT"
    /\ UNCHANGED <<display, loopPc, terminating, dtorPc, posted,
                   ptyData, ptyBudget, ptyClosed, wakePending, pendingInput,
                   pendingBufferCapture, captureDialogOpen, onClosedCalls,
                   calledAfterClosed, callsSinceWake, flushers, sessionRest>>

\* operator()(actions::ScreenshotVT): the screenshot is written, the lock given back.
ScreenshotVT_return ==
    /\ guiPc = "ScreenshotVT"
    /\ lockOwner' = "none"
    /\ guiPc' = "idle"
    /\ UNCHANGED <<display, loopPc, terminating, dtorPc, posted,
                   ptyData, ptyBudget, ptyClosed, wakePending, pendingInput,
                   pendingBufferCapture, captureDialogOpen, onClosedCalls,
                   calledAfterClosed, callsSinceWake, flushers, sessionRest>>

\* executePendingBufferCapture(allow, remember), called with the answer
\* to the dialog of requestPermissionForBufferCapture.
executePendingBufferCapture ==
    /\ GuiIdle /\ captureDialogOpen
    /\ captureDialogOpen' = FALSE
    /\ \E allow \in BOOLEAN :
          IF ~pendingBufferCapture
          THEN UNCHANGED <<pendingBufferCapture, guiPc>>
          ELSE /\ pendingBufferCapture' = FALSE
               /\ guiPc' = IF allow THEN "captureBuffer" ELSE "idle"
    /\ UNCHANGED <<display, loopPc, terminating, dtorPc, posted, lockOwner,
                   ptyData, ptyBudget, ptyClosed, wakePending, pendingInput,
                   onClosedCalls, calledAfterClosed, callsSinceWake, flushers,
                   sessionRest>>

\* executePendingBufferCapture: primaryScreen().captureBuffer(...) has read
\* the screen and queued its reply; flushInput() is called.
executePendingBufferCapture_captured ==
    /\ guiPc = "captureBuffer"
    /\ pendingInput' = Min(pendingInput + 1, MaxPendingInput)
    /\ guiPc' = "flushInput"
    /\ UNCHANGED <<display, loopPc, terminating, dtorPc, posted, lockOwner,
                   ptyData, ptyBudget, ptyClosed, wakePending,
                   pendingBufferCapture, captureDialogOpen, onClosedCalls,
                   calledAfterClosed, callsSinceWake, flushers, sessionRest>>

\* ~TerminalSession: terminating_ = true
destructor ==
    /\ GuiIdle
    /\ terminating' = TRUE
    /\ dtorPc' = "wakeupReader"
    /\ UNCHANGED <<display, loopPc, guiPc, posted, lockOwner,
                   ptyData, ptyBudget, ptyClosed, wakePending, pendingInput,
                   pendingBufferCapture, captureDialogOpen, onClosedCalls,
                   calledAfterClosed, callsSinceWake, flushers, sessionRest>>

\* A plausible slip in ~TerminalSession: wakeupReader() is not called.
destructor_wakeupReader_omitted ==
    /\ dtorPc = "wakeupReader"
    /\ dtorPc' = IF loopPc # "none" THEN "join" ELSE "destroyed"
    /\ UNCHANGED <<display, loopPc, terminating, guiPc, posted, lockOwner,
                   ptyData, ptyBudget, ptyClosed, wakePending, pendingInput,
                   pendingBufferCapture, captureDialogOpen, onClosedCalls,
                   calledAfterClosed, callsSinceWake, flushers, sessionRest>>
\* ~TerminalSession: terminal_.device().wakeupReader(); the wake-up stays
\* until a read takes it.  Without a thread there is nothing to join.
destructor_wakeupReader ==
    /\ dtorPc = "wakeupReader"
    /\ wakePending' = TRUE
    /\ dtorPc' = IF loopPc # "none" THEN "join" ELSE "destroyed"
    /\ UNCHANGED <<display, loopPc, terminating, guiPc, posted, lockOwner,
                   ptyData, ptyBudget, ptyClosed, pendingInput,
                   pendingBufferCapture, captureDialogOpen, onClosedCalls,
                   calledAfterClosed, callsSinceWake, flushers, sessionRest>>

\* ~TerminalSession: screenUpdateThread_->join() returns when mainLoop has ended.
destructor_join ==
    /\ dtorPc = "join" /\ loopPc = "done"
    /\ dtorPc' = "destroyed"
    /\ UNCHANGED <<display, loopPc, terminating, guiPc, posted, lockOwner,
                   ptyData, ptyBudget, ptyClosed, wakePending, pendingInput,
                   pendingBufferCapture, captureDialogOpen, onClosedCalls,
                   calledAfterClosed, callsSinceWake, flushers, sessionRest>>

\* The application writes to the PTY.
ptyOutput ==
    /\ loopPc # "none" /\ ~ptyClosed /\ ptyBudget > 0
    /\ ptyBudget' = ptyBudget - 1
    /\ ptyData' = ptyData + 1
    /\ UNCHANGED <<display, loopPc, terminating, dtorPc, guiPc, posted, lockOwner,
                   ptyClosed, wakePending, pendingInput,
                   pendingBufferCapture, captureDialogOpen, onClosedCalls,
                   calledAfterClosed, callsSinceWake, flushers, sessionRest>>

\* The application ends: the PTY is closed.
ptyClose ==
    /\ loopPc # "none" /\ ~ptyClosed
    /\ ptyClosed' = TRUE
    /\ UNCHANGED <<display, loopPc, terminating, dtorPc, guiPc, posted, lockOwner,
                   ptyData, ptyBudget, wakePending, pendingInput,
                   pendingBufferCapture, captureDialogOpen, onClosedCalls,
                   calledAfterClosed, callsSinceWake, flushers, sessionRest>>

(***************************************************************************)
(* Guarded roles: font change and buffer capture (part_004:404-535), and   *)
(* the dialogs of Terminal.qml that answer for them (part_004:38-75).      *)
(***************************************************************************)
\* RequestPermission.qml: clickedRememberChoice()
clickedRememberChoice(button) == button \in {"YesToAll", "NoToAll"}

\* MessageDialog: Yes and YesToAll emit yes, No and NoToAll emit no, Abort
\* emits rejected; the handlers of Terminal.qml pass (allow, remember).
DialogAnswer(button) ==
    [allow    |-> button \in {"Yes", "YesToAll"},
     remember |-> IF button = "Abort" THEN FALSE ELSE clickedRememberChoice(button)]

\* rememberedPermissions_[role] = allow
remember_(cache, role, allow) ==
    [cache EXCEPT ![role] = IF allow THEN "allow" ELSE "deny"]

\* The variables no guarded role touches.
roleRest == <<display, loopPc, terminating, dtorPc, guiPc, lockOwner, ptyData,
              ptyBudget, ptyClosed, wakePending, pendingInput, onClosedCalls,
              calledAfterClosed, callsSinceWake, flushers, changeFontPermission, captureBufferPermission,
                 allowKeyMappings, lastActions,
              terminatedAndWaitingForKeyPress, askedAgain, nullDeref,
              parserVars, lineVars, screenVars>>

\* A plausible slip in applyPendingFontChange: a denied request stays pending.
applyPendingFontChange_keepsDenied(allow, remember, source, button) ==
    /\ rememberedPermissions' =
           IF remember THEN remember_(rememberedPermissions, "ChangeFont", allow)
           ELSE rememberedPermissions
    /\ pendingFontChange' = (pendingFontChange /\ ~allow)
    /\ lastCall' = [role |-> "ChangeFont", allow |-> allow, remember |-> remember,
                    source |-> source, button |-> button,
                    remembered |-> rememberedPermissions["ChangeFont"],
                    pending |-> pendingFontChange,
                    effect |-> pendingFontChange /\ allow]
    /\ UNCHANGED <<pendingBufferCapture, captureDialogOpen>>

\* applyPendingFontChange(allow, remember): the answer is remembered, the
\* pending request taken; display_->setFonts is reached (effect) when there
\* was a request and allow is true.
applyPendingFontChange(allow, remember, source, button) ==
    /\ rememberedPermissions' =
           IF remember THEN remember_(rememberedPermissions, "ChangeFont", allow)
           ELSE rememberedPermissions
    /\ pendingFontChange' = FALSE
    /\ lastCall' = [role |-> "ChangeFont", allow |-> allow, remember |-> remember,
                    source |-> source, button |-> button,
                    remembered |-> rememberedPermissions["ChangeFont"],
                    pending |-> pendingFontChange,
                    effect |-> pendingFontChange /\ allow]
    /\ UNCHANGED <<pendingBufferCapture, captureDialogOpen>>

\* executePendingBufferCapture(allow, remember), as the dialog's handlers
\* call it: the answer is remembered, the pending request taken;
\* captureBuffer is reached (effect) when there was a request and allow is
\* true.  The threads of the capture are the session model's.
executePendingBufferCapture_call(allow, remember, source, button) ==
    /\ rememberedPermissions' =
           IF remember THEN remember_(rememberedPermissions, "CaptureBuffer", allow)
           ELSE rememberedPermissions
    /\ pendingBufferCapture' = FALSE
    /\ lastCall' = [role |-> "CaptureBuffer", allow |-> allow, remember |-> remember,
                    source |-> source, button |-> button,
                    remembered |-> rememberedPermissions["CaptureBuffer"],
                    pending |-> pendingBufferCapture,
                    effect |-> pendingBufferCapture /\ allow]
    /\ UNCHANGED pendingFontChange

\* executeRole(role, allow, remember)
executeRole(role, allow, remember, source, button) ==
    IF role = "CaptureBuffer"
    THEN executePendingBufferCapture_call(allow, remember, source, button)
         /\ UNCHANGED captureDialogOpen
    ELSE applyPendingFontChange(allow, remember, source, button)

\* setFontDef(fontDef), called by the terminal while the bytes are applied:
\* the request is kept and requestPermission posted to the display.
setFontDef ==
    /\ loopPc = "apply"
    /\ IF ~display
       THEN UNCHANGED <<pendingFontChange, posted>>
       ELSE /\ pendingFontChange' = TRUE
            /\ Len(posted) < MaxPosted
            /\ posted' = post(posted, "requestPermission")
    /\ UNCHANGED <<rememberedPermissions, fontDialogOpen, lastCall,
                   pendingBufferCapture, captureDialogOpen, roleRest>>

\* A plausible slip in requestPermission: Deny handled as Allow.
requestPermission_denyAllows(allowedByConfig, role) ==
    CASE allowedByConfig \in {"Allow", "Deny"} ->
            /\ executeRole(role, TRUE, FALSE, "config", "none")
            /\ UNCHANGED fontDialogOpen
      [] allowedByConfig = "Ask" ->
            IF rememberedPermissions[role] # "none"
            THEN /\ executeRole(role, rememberedPermissions[role] = "allow", FALSE,
                                "remembered", "none")
                 /\ UNCHANGED fontDialogOpen
            ELSE /\ fontDialogOpen' = TRUE
                 /\ UNCHANGED <<rememberedPermissions, pendingFontChange, lastCall,
                                pendingBufferCapture, captureDialogOpen>>

\* requestPermission(allowedByConfig, role): the configuration decides, or
\* the remembered answer, or the user is asked (requestPermissionForFontChange
\* opens requestFontChangeDialog).
requestPermission(allowedByConfig, role) ==
    CASE allowedByConfig = "Allow" ->
            /\ executeRole(role, TRUE, FALSE, "config", "none")
            /\ UNCHANGED fontDialogOpen
      [] allowedByConfig = "Deny" ->
            /\ executeRole(role, FALSE, FALSE, "config", "none")
            /\ UNCHANGED fontDialogOpen
      [] allowedByConfig = "Ask" ->
            IF rememberedPermissions[role] # "none"
            THEN /\ executeRole(role, rememberedPermissions[role] = "allow", FALSE,
                                "remembered", "none")
                 /\ UNCHANGED fontDialogOpen
            ELSE /\ fontDialogOpen' = TRUE
                 /\ UNCHANGED <<rememberedPermissions, pendingFontChange, lastCall,
                                pendingBufferCapture, captureDialogOpen>>

\* The display runs the task setFontDef posted:
\* requestPermission(profile_.permissions.changeFont, GuardedRole::ChangeFont).
requestPermission_posted ==
    /\ GuiIdle /\ posted # << >>
    /\ Head(posted) = "requestPermission"
    /\ posted' = Tail(posted)
    /\ requestPermission(changeFontPermission, "ChangeFont")
    /\ UNCHANGED roleRest

\* requestFontChangeDialog: onYes, onNo, onRejected.
requestFontChangeDialog ==
    /\ GuiIdle /\ fontDialogOpen
    /\ fontDialogOpen' = FALSE
    /\ \E button \in Buttons :
          applyPendingFontChange(DialogAnswer(button).allow,
                                 DialogAnswer(button).remember, "user", button)
    /\ UNCHANGED <<posted, roleRest>>

\* requestBufferCaptureDialog: onYes, onNo, onRejected.
requestBufferCaptureDialog ==
    /\ GuiIdle /\ captureDialogOpen
    /\ captureDialogOpen' = FALSE
    /\ \E button \in Buttons :
          executePendingBufferCapture_call(DialogAnswer(button).allow,
                                           DialogAnswer(button).remember, "user", button)
    /\ UNCHANGED <<posted, fontDialogOpen, roleRest>>

PermissionNext ==
    \/ attachDisplay
    \/ setFontDef
    \/ requestCaptureBuffer
    \/ requestPermission_posted
    \/ requestFontChangeDialog
    \/ requestBufferCaptureDialog

(***************************************************************************)
(* The session without a display (part_004:476-479, 545-553, 704-721).     *)
(* A dereference of the null display_ is undefined behaviour: the function *)
(* is recorded in nullDeref, and the behaviour may stop there or go on as  *)
(* if the call had returned.                                               *)
(***************************************************************************)
\* display_->...: what nullDeref holds after function f used display_.
dereference(f) == IF display THEN nullDeref ELSE nullDeref \cup {f}

\* The variables the functions below leave alone.
headlessRest == <<display, loopPc, terminating, dtorPc, guiPc, posted, lockOwner,
                  ptyData, ptyBudget, ptyClosed, wakePending,
                  pendingBufferCapture, captureDialogOpen, onClosedCalls,
                  calledAfterClosed, callsSinceWake, flushers,
                  changeFontPermission, captureBufferPermission,
                 allowKeyMappings, lastActions, rememberedPermissions, pendingFontChange,
                  fontDialogOpen, terminatedAndWaitingForKeyPress, lastCall,
                  askedAgain, parserVars, lineVars, screenVars>>

\* getFontDef(), called by the terminal while the bytes are applied (the
\* application asks for the font): return display_->getFontDef().
getFontDef ==
    /\ loopPc = "apply"
    /\ nullDeref' = dereference("getFontDef")
    /\ UNCHANGED <<pendingInput, headlessRest>>

\* inspect(): display_->inspect() if there is a display; then, the device
\* closed and no dump asked for at exit, display_->closeDisplay().
inspect ==
    /\ GuiIdle
    /\ \E dumpStateAtExit \in BOOLEAN :
          nullDeref' = IF ptyClosed /\ ~dumpStateAtExit
                       THEN dereference("inspect") ELSE nullDeref
    /\ UNCHANGED <<pendingInput, headlessRest>>

\* sendKeyPressEvent(key, modifier, now): closes the display when the
\* session waits for a key press; else hides the mouse cursor and gives the
\* key to the terminal, which buffers the input.
sendKeyPressEvent ==
    /\ GuiIdle
    /\ nullDeref' = dereference("sendKeyPressEvent")
    /\ IF terminatedAndWaitingForKeyPress
       THEN UNCHANGED pendingInput
       ELSE pendingInput' = Min(pendingInput + 1, MaxPendingInput)
    /\ UNCHANGED headlessRest

\* A session that never gets a display.
HeadlessNext ==
    \/ start
    \/ mainLoop
    \/ reply
    \/ screenUpdated
    \/ requestCaptureBuffer
    \/ setFontDef
    \/ getFontDef
    \/ inspect
    \/ sendKeyPressEvent
    \/ destructor
    \/ destructor_wakeupReader
    \/ destructor_join
    \/ ptyOutput
    \/ ptyClose

SessionNext ==
    \/ attachDisplay
    \/ start
    \/ mainLoop
    \/ reply
    \/ screenUpdated
    \/ requestCaptureBuffer
    \/ sendCharPressEvent
    \/ flushInput_posted
    \/ flushInput
    \/ ScreenshotVT_lock
    \/ ScreenshotVT_return
    \/ executePendingBufferCapture
    \/ executePendingBufferCapture_captured
    \/ destructor
    \/ destructor_wakeupReader
    \/ destructor_join
    \/ ptyOutput
    \/ ptyClose

\* The session with the steps that buffer and flush input.
FlushNext ==
    \/ attachDisplay
    \/ start
    \/ mainLoop
    \/ reply
    \/ screenUpdated
    \/ sendCharPressEvent
    \/ flushInput_posted
    \/ flushInput
    \/ destructor
    \/ destructor_wakeupReader
    \/ destructor_join
    \/ ptyOutput
    \/ ptyClose

\* Terminal::flushInput() finds the PTY ready for all that is buffered.
flushInput_writesAll == flushInput /\ pendingInput' = 0

(***************************************************************************)
(* TerminalSession::executeAllActions (part_004:1226-1253).  Three of the  *)
(* actions are modelled, by what they return and do to allowKeyMappings_:  *)
(* ToggleAllKeyMaps, ScrollToTop (always applies) and FollowHyperlink      *)
(* (applies when the terminal has a hyperlink under the mouse).            *)
(***************************************************************************)
\* Longest list of actions bound to one input.
MaxActions == 3

Actions == {"ToggleAllKeyMaps", "ScrollToTop", "FollowHyperlink"}
ActionLists == SeqsUpTo(Actions, MaxActions)

\* operator()(actions::ToggleAllKeyMaps): allowKeyMappings_ is negated,
\* the action applied.
ToggleAllKeyMaps(allow) == [allow |-> ~allow, applied |-> TRUE]

\* executeAction(action) = visit(*this, action): the flag afterwards and
\* whether the action applied.
executeAction(action, allow, hyperlink) ==
    IF action = "ToggleAllKeyMaps" THEN ToggleAllKeyMaps(allow)
    ELSE [allow |-> allow,
          applied |-> (action = "ScrollToTop" \/ hyperlink)]

\* The for loop of executeAllActions over the actions from index i on;
\* acc is [allow, executed, executionCount].
RECURSIVE executeAllActions_loop(_, _, _, _)
executeAllActions_loop(actions, i, hyperlink, acc) ==
    IF i > Len(actions) THEN acc
    ELSE LET r == executeAction(actions[i], acc.allow, hyperlink) IN
         executeAllActions_loop(actions, i + 1, hyperlink,
             [allow |-> r.allow,
              executed |-> Append(acc.executed, actions[i]),
              executionCount |-> acc.executionCount + (IF r.applied THEN 1 ELSE 0)])

\* std::any_of(..., holds_alternative<actions::ToggleAllKeyMaps>)
containsToggleKeybind(actions) ==
    \E i \in 1..Len(actions) : actions[i] = "ToggleAllKeyMaps"

\* A plausible slip in executeAllActions: the test of allowKeyMappings_ is
\* left out.
executeAllActions_run_unguarded(actions, allow, hyperlink) ==
    executeAllActions_loop(actions, 1, hyperlink,
                           [allow |-> allow, executed |-> << >>, executionCount |-> 0])

\* executeAllActions(actions): the flag afterwards, the actions executed
\* in order, and the value returned.
executeAllActions_run(actions, allow, hyperlink) ==
    IF allow
    THEN executeAllActions_loop(actions, 1, hyperlink,
                                [allow |-> allow, executed |-> << >>, executionCount |-> 0])
    ELSE IF containsToggleKeybind(actions)
         THEN LET ex == executeAction("ToggleAllKeyMaps", allow, hyperlink) IN
              [allow |-> ex.allow, executed |-> << "ToggleAllKeyMaps" >>,
               executionCount |-> IF ex.applied THEN 1 ELSE 0]
         ELSE [allow |-> allow, executed |-> << >>, executionCount |-> 0]

\* An input mapped to a list of actions arrives: executeAllActions(actions).
executeAllActions ==
    /\ \E actions \in ActionLists, hyperlink \in BOOLEAN :
        LET r == executeAllActions_run(actions, allowKeyMappings, hyperlink) IN
        /\ allowKeyMappings' = r.allow
        /\ lastActions' = [actions |-> actions, allowedBefore |-> allowKeyMappings,
                           executed |-> r.executed, result |-> r.executionCount,
                           called |-> TRUE, hyperlink |-> hyperlink]
    /\ UNCHANGED <<display, loopPc, terminating, dtorPc, guiPc, posted, lockOwner,
                   ptyData, ptyBudget, ptyClosed, wakePending, pendingInput,
                   pendingBufferCapture, captureDialogOpen, onClosedCalls,
                   calledAfterClosed, callsSinceWake, flushers,
                   changeFontPermission, captureBufferPermission,
                   rememberedPermissions, pendingFontChange, fontDialogOpen,
                   terminatedAndWaitingForKeyPress, lastCall, askedAgain, nullDeref,
                   parserVars, lineVars, screenVars>>

KeysNext == executeAllActions

(***************************************************************************)
(* Screen and Grid.  Their sources are not at hand: the operations follow  *)
(* the specification (data model, 4.3, 4.4); configureTerminal and         *)
(* Line::useCellAt are the program's.  Clusters are one column wide.       *)
(***************************************************************************)
Clamp(v, lo, hi) == Max(lo, Min(v, hi))
Range(q) == { q[i] : i \in 1..Len(q) }

\* The scrolling region is the whole page.
WholePage == margin.top = 0 /\ margin.bottom = PageLines

\* The grid keeps the newest cap lines of the scrollback.
Grid_clampHistory(h, cap) == Drop(h, Len(h) - Min(Len(h), cap))

\* Terminal::setMaxHistoryLineCount(n)
setMaxHistoryLineCount(n) ==
    /\ maxHistoryLineCount' = n
    /\ history' = Grid_clampHistory(history, n)

\* 1-based parameter of a control function to a 0-based offset; zero or
\* missing is the default 1.
Offset(p) == (IF p = 0 THEN 1 ELSE p) - 1
Count(p) == IF p = 0 THEN 1 ELSE p

\* The column of the cell the cursor is at: the last one when the cursor
\* is at the sentinel.
realColumn == Min(cursor.column, PageColumns - 1)

\* A control function moves the cursor: the target is clamped to the page
\* and a pending wrap is given up.
moveCursorTo(l, c) ==
    /\ cursor' = [line |-> Clamp(l, 0, PageLines - 1), column |-> Clamp(c, 0, PageColumns - 1)]
    /\ wrapPending' = FALSE

\* A line of the alternate screen; its lines are not told apart.
AltLine == 0

\* Scroll up by n within [top, bottom): the lines leaving the region go to
\* the scrollback if the region is the whole page and the alternate screen
\* is inactive, else they are discarded; new lines are blank.
scrollUp(n) ==
    LET k == Min(n, margin.bottom - margin.top)
        fresh == [i \in 1..k |-> nextId + i - 1]
        leaving == IF altActive THEN [i \in 1..k |-> AltLine]
                   ELSE SubSeq(page, margin.top + 1, margin.top + k)
        newPage == SubSeq(page, 1, margin.top)
                     \o SubSeq(page, margin.top + k + 1, margin.bottom)
                     \o fresh
                     \o SubSeq(page, margin.bottom + 1, PageLines)
    IN /\ IF altActive
          THEN UNCHANGED <<page, nextId>>
          ELSE /\ nextId + k - 1 <= PageLines + MaxScrolledLines
               /\ nextId' = nextId + k
               /\ page' = newPage
       /\ history' = IF WholePage /\ ~altActive
                     THEN Grid_clampHistory(history \o leaving, maxHistoryLineCount)
                     ELSE history
       /\ IF margin.top = 0 /\ margin.bottom = PageLines /\ leaving[1] # AltLine
          THEN evicted' = evicted \o leaving /\ discarded' = discarded
          ELSE discarded' = discarded \cup Range(leaving) /\ evicted' = evicted

gridVars == <<page, history, evicted, discarded, nextId>>

\* The line the cursor goes to on a line feed: at the bottom of the region
\* the region scrolls, at the bottom of the page the cursor stays.
linefeed(column, pending) ==
    /\ wrapPending' = pending
    /\ IF cursor.line + 1 = margin.bottom
       THEN /\ scrollUp(1)
            /\ cursor' = [cursor EXCEPT !.column = column]
       ELSE /\ cursor' = [line |-> Min(cursor.line + 1, PageLines - 1), column |-> column]
            /\ UNCHANGED gridVars

screenRest == <<parserVars, lineVars, sessionVars>>

\* writeText(cluster, 1)
writeText ==
    /\ IF wrapPending /\ autoWrap
       THEN \* the line wraps, the cluster goes to the left of the next line
            linefeed(1, PageColumns = 1)
       ELSE \* the cluster goes to the cell the cursor is at; the cursor is
            \* past the right edge when the next write would overflow
            /\ cursor' = [cursor EXCEPT !.column = realColumn + 1]
            /\ wrapPending' = (realColumn + 1 = PageColumns)
            /\ UNCHANGED gridVars
    /\ UNCHANGED <<autoWrap, margin, altActive, maxHistoryLineCount, profileMaxHistory,
                   screenRest>>

\* LF
Linefeed ==
    /\ linefeed(cursor.column, wrapPending)
    /\ UNCHANGED <<autoWrap, margin, altActive, maxHistoryLineCount, profileMaxHistory,
                   screenRest>>

\* CR
CarriageReturn ==
    /\ moveCursorTo(cursor.line, 0)
    /\ UNCHANGED <<autoWrap, margin, altActive, gridVars, maxHistoryLineCount,
                   profileMaxHistory, screenRest>>

\* CUP
CursorPosition ==
    /\ \E pl \in 0..MaxParam, pc \in 0..MaxParam : moveCursorTo(Offset(pl), Offset(pc))
    /\ UNCHANGED <<autoWrap, margin, altActive, gridVars, maxHistoryLineCount,
                   profileMaxHistory, screenRest>>

\* CUU, CUD, CUF, CUB
CursorMove ==
    /\ \E p \in 0..MaxParam :
          \/ moveCursorTo(cursor.line - Count(p), realColumn)
          \/ moveCursorTo(cursor.line + Count(p), realColumn)
          \/ moveCursorTo(cursor.line, realColumn + Count(p))
          \/ moveCursorTo(cursor.line, realColumn - Count(p))
    /\ UNCHANGED <<autoWrap, margin, altActive, gridVars, maxHistoryLineCount,
                   profileMaxHistory, screenRest>>

\* DECSTBM: top < bottom <= lines, the cursor goes home.
SetTopBottomMargin ==
    /\ \E t \in 0..(PageLines - 1), b \in 1..PageLines :
          /\ t < b
          /\ margin' = [top |-> t, bottom |-> b]
    /\ moveCursorTo(0, 0)
    /\ UNCHANGED <<autoWrap, altActive, gridVars, maxHistoryLineCount,
                   profileMaxHistory, screenRest>>

\* DECAWM set and reset
SetAutoWrap ==
    /\ autoWrap' = ~autoWrap
    /\ UNCHANGED <<cursor, wrapPending, margin, altActive, gridVars, maxHistoryLineCount,
                   profileMaxHistory, screenRest>>

\* DEC mode 1049 set and reset: the other screen becomes the current one.
SwitchScreen ==
    /\ altActive' = ~altActive
    /\ UNCHANGED <<cursor, wrapPending, autoWrap, margin, gridVars, maxHistoryLineCount,
                   profileMaxHistory, screenRest>>

\* SU
ScrollUp ==
    /\ \E p \in 0..MaxParam : scrollUp(Count(p))
    /\ UNCHANGED <<cursor, wrapPending, autoWrap, margin, altActive, maxHistoryLineCount,
                   profileMaxHistory, screenRest>>

\* A plausible slip in configureTerminal: setMaxHistoryLineCount is not called.
configureTerminal_keepsHistoryBound ==
    /\ lockOwner = "none"
    /\ UNCHANGED <<maxHistoryLineCount, history>>
\* configureTerminal(): under the terminal's lock the terminal is given
\* the settings of profile_.
configureTerminal ==
    /\ lockOwner = "none"
    /\ setMaxHistoryLineCount(profileMaxHistory')

\* activateProfile(newProfileName): an unknown name changes nothing.
activateProfile ==
    /\ \E known \in BOOLEAN, newProfile \in 0..MaxHistory :
          IF ~known
          THEN UNCHANGED <<profileMaxHistory, maxHistoryLineCount, history>>
          ELSE /\ profileMaxHistory' = newProfile
               /\ configureTerminal
    /\ UNCHANGED <<cursor, wrapPending, autoWrap, margin, altActive, page,
                   evicted, discarded, nextId, screenRest>>

ScreenNext ==
    \/ writeText
    \/ Linefeed
    \/ CarriageReturn
    \/ CursorPosition
    \/ CursorMove
    \/ SetTopBottomMargin
    \/ SetAutoWrap
    \/ SwitchScreen
    \/ ScrollUp
    \/ activateProfile

(***************************************************************************)
(* Specifications                                                          *)
(***************************************************************************)
\* MouseTracker about to read what the terminal sends.
InitParser ==
    /\ stdin \in Inputs
    /\ input = stdin
    /\ mt = NewMouseTracker
    /\ splitInside = FALSE
    /\ trackerPc = "main"
    /\ running = TRUE
    /\ termios = "saved"
    /\ modes = {}
    /\ disposition = [sig \in Signals |-> "default"]
    /\ signalsLeft = MaxSignals
    /\ reportsLeft = MaxReports
    /\ replyState = -1
    /\ supported = "unknown"
    /\ line = IdleLine
    /\ lineOp = NoLineOp
    /\ display = FALSE
    /\ loopPc = "none"
    /\ terminating = FALSE
    /\ dtorPc = "alive"
    /\ guiPc = "idle"
    /\ posted = << >>
    /\ lockOwner = "none"
    /\ ptyData = 0
    /\ ptyBudget = MaxPtyOutput
    /\ ptyClosed = FALSE
    /\ wakePending = FALSE
    /\ pendingInput = 0
    /\ pendingBufferCapture = FALSE
    /\ captureDialogOpen = FALSE
    /\ onClosedCalls = << >>
    /\ calledAfterClosed = FALSE
    /\ callsSinceWake = 0
    /\ flushers = {}
    /\ changeFontPermission = "Ask"
    /\ captureBufferPermission = "Ask"
    /\ allowKeyMappings = TRUE
    /\ lastActions = NoActions
    /\ rememberedPermissions = [r \in Roles |-> "none"]
    /\ pendingFontChange = FALSE
    /\ fontDialogOpen = FALSE
    /\ terminatedAndWaitingForKeyPress = FALSE
    /\ lastCall = NoCall
    /\ askedAgain = {}
    /\ nullDeref = {}
    /\ cursor = [line |-> 0, column |-> 0]
    /\ wrapPending = FALSE
    /\ autoWrap = TRUE
    /\ margin = [top |-> 0, bottom |-> PageLines]
    /\ altActive = FALSE
    /\ page = [i \in 1..PageLines |-> i]
    /\ history = << >>
    /\ evicted = << >>
    /\ discarded = {}
    /\ nextId = PageLines + 1
    /\ profileMaxHistory = 0
    /\ maxHistoryLineCount = profileMaxHistory

SpecParser == InitParser /\ [][ParserNext]_vars

\* The MouseTracker program from main() on; nothing has been sent yet.
InitTracker ==
    /\ stdin = << >>
    /\ input = stdin
    /\ mt = NewMouseTracker
    /\ splitInside = FALSE
    /\ trackerPc = "main"
    /\ running = TRUE
    /\ termios = "saved"
    /\ modes = {}
    /\ disposition = [sig \in Signals |-> "default"]
    /\ signalsLeft = MaxSignals
    /\ reportsLeft = MaxReports
    /\ replyState = -1
    /\ supported = "unknown"
    /\ line = IdleLine
    /\ lineOp = NoLineOp
    /\ display = FALSE
    /\ loopPc = "none"
    /\ terminating = FALSE
    /\ dtorPc = "alive"
    /\ guiPc = "idle"
    /\ posted = << >>
    /\ lockOwner = "none"
    /\ ptyData = 0
    /\ ptyBudget = MaxPtyOutput
    /\ ptyClosed = FALSE
    /\ wakePending = FALSE
    /\ pendingInput = 0
    /\ pendingBufferCapture = FALSE
    /\ captureDialogOpen = FALSE
    /\ onClosedCalls = << >>
    /\ calledAfterClosed = FALSE
    /\ callsSinceWake = 0
    /\ flushers = {}
    /\ changeFontPermission = "Ask"
    /\ captureBufferPermission = "Ask"
    /\ allowKeyMappings = TRUE
    /\ lastActions = NoActions
    /\ rememberedPermissions = [r \in Roles |-> "none"]
    /\ pendingFontChange = FALSE
    /\ fontDialogOpen = FALSE
    /\ terminatedAndWaitingForKeyPress = FALSE
    /\ lastCall = NoCall
    /\ askedAgain = {}
    /\ nullDeref = {}
    /\ cursor = [line |-> 0, column |-> 0]
    /\ wrapPending = FALSE
    /\ autoWrap = TRUE
    /\ margin = [top |-> 0, bottom |-> PageLines]
    /\ altActive = FALSE
    /\ page = [i \in 1..PageLines |-> i]
    /\ history = << >>
    /\ evicted = << >>
    /\ discarded = {}
    /\ nextId = PageLines + 1
    /\ profileMaxHistory = 0
    /\ maxHistoryLineCount = profileMaxHistory

SpecTracker == InitTracker /\ [][TrackerNext]_vars
\* The steps of main() other than processInput.
main_steps ==
    \/ MouseTracker_ctor
    \/ checkPassiveMouseTrackingSupport_query
    \/ checkPassiveMouseTrackingSupport_while
    \/ checkPassiveMouseTrackingSupport_print
    \/ run_while
    \/ MouseTracker_dtor
\* What a step of processInput does to trackerPc and stdin: read() returns
\* with n bytes and the loop is at its test again.  It is enabled where
\* processInput_at is, and no other step of TrackerNext is one of its steps.
processInput_returns ==
    /\ trackerPc \in {"checkRead", "loopRead"}
    /\ stdin # << >>
    /\ trackerPc' = (IF trackerPc = "checkRead" THEN "check" ELSE "loop")
    /\ \E n \in 1..Min(Len(stdin), BufSize) : stdin' = Drop(stdin, n)
\* main() runs on: a step of the program that can be taken is taken.
SpecTrackerFair ==
    SpecTracker /\ WF_vars(main_steps) /\ WF_<<trackerPc, stdin>>(processInput_returns)

\* One line of a grid.
InitLine ==
    /\ line \in InitialLines
    /\ lineOp = NoLineOp
    /\ stdin = << >>
    /\ input = << >>
    /\ mt = NewMouseTracker
    /\ splitInside = FALSE
    /\ trackerPc = "main"
    /\ running = TRUE
    /\ termios = "saved"
    /\ modes = {}
    /\ disposition = [sig \in Signals |-> "default"]
    /\ signalsLeft = MaxSignals
    /\ reportsLeft = MaxReports
    /\ replyState = -1
    /\ supported = "unknown"
    /\ display = FALSE
    /\ loopPc = "none"
    /\ terminating = FALSE
    /\ dtorPc = "alive"
    /\ guiPc = "idle"
    /\ posted = << >>
    /\ lockOwner = "none"
    /\ ptyData = 0
    /\ ptyBudget = MaxPtyOutput
    /\ ptyClosed = FALSE
    /\ wakePending = FALSE
    /\ pendingInput = 0
    /\ pendingBufferCapture = FALSE
    /\ captureDialogOpen = FALSE
    /\ onClosedCalls = << >>
    /\ calledAfterClosed = FALSE
    /\ callsSinceWake = 0
    /\ flushers = {}
    /\ changeFontPermission = "Ask"
    /\ captureBufferPermission = "Ask"
    /\ allowKeyMappings = TRUE
    /\ lastActions = NoActions
    /\ rememberedPermissions = [r \in Roles |-> "none"]
    /\ pendingFontChange = FALSE
    /\ fontDialogOpen = FALSE
    /\ terminatedAndWaitingForKeyPress = FALSE
    /\ lastCall = NoCall
    /\ askedAgain = {}
    /\ nullDeref = {}
    /\ cursor = [line |-> 0, column |-> 0]
    /\ wrapPending = FALSE
    /\ autoWrap = TRUE
    /\ margin = [top |-> 0, bottom |-> PageLines]
    /\ altActive = FALSE
    /\ page = [i \in 1..PageLines |-> i]
    /\ history = << >>
    /\ evicted = << >>
    /\ discarded = {}
    /\ nextId = PageLines + 1
    /\ profileMaxHistory = 0
    /\ maxHistoryLineCount = profileMaxHistory

SpecLine == InitLine /\ [][LineNext]_vars

\* Searching and reading a line: one operation on a line a grid can hold.
InitSearch ==
    /\ line \in SearchLines
    /\ lineOp = NoLineOp
    /\ stdin = << >>
    /\ input = << >>
    /\ mt = NewMouseTracker
    /\ splitInside = FALSE
    /\ trackerPc = "main"
    /\ running = TRUE
    /\ termios = "saved"
    /\ modes = {}
    /\ disposition = [sig \in Signals |-> "default"]
    /\ signalsLeft = MaxSignals
    /\ reportsLeft = MaxReports
    /\ replyState = -1
    /\ supported = "unknown"
    /\ display = FALSE
    /\ loopPc = "none"
    /\ terminating = FALSE
    /\ dtorPc = "alive"
    /\ guiPc = "idle"
    /\ posted = << >>
    /\ lockOwner = "none"
    /\ ptyData = 0
    /\ ptyBudget = MaxPtyOutput
    /\ ptyClosed = FALSE
    /\ wakePending = FALSE
    /\ pendingInput = 0
    /\ pendingBufferCapture = FALSE
    /\ captureDialogOpen = FALSE
    /\ onClosedCalls = << >>
    /\ calledAfterClosed = FALSE
    /\ callsSinceWake = 0
    /\ flushers = {}
    /\ changeFontPermission = "Ask"
    /\ captureBufferPermission = "Ask"
    /\ allowKeyMappings = TRUE
    /\ lastActions = NoActions
    /\ rememberedPermissions = [r \in Roles |-> "none"]
    /\ pendingFontChange = FALSE
    /\ fontDialogOpen = FALSE
    /\ terminatedAndWaitingForKeyPress = FALSE
    /\ lastCall = NoCall
    /\ askedAgain = {}
    /\ nullDeref = {}
    /\ cursor = [line |-> 0, column |-> 0]
    /\ wrapPending = FALSE
    /\ autoWrap = TRUE
    /\ margin = [top |-> 0, bottom |-> PageLines]
    /\ altActive = FALSE
    /\ page = [i \in 1..PageLines |-> i]
    /\ history = << >>
    /\ evicted = << >>
    /\ discarded = {}
    /\ nextId = PageLines + 1
    /\ profileMaxHistory = 0
    /\ maxHistoryLineCount = profileMaxHistory

SpecSearch == InitSearch /\ [][SearchNext]_vars

\* Flags, cell access and fill: one operation on a line a grid can hold.
InitLineOps ==
    /\ line \in OpLines
    /\ lineOp = NoLineOp
    /\ stdin = << >>
    /\ input = << >>
    /\ mt = NewMouseTracker
    /\ splitInside = FALSE
    /\ trackerPc = "main"
    /\ running = TRUE
    /\ termios = "saved"
    /\ modes = {}
    /\ disposition = [sig \in Signals |-> "default"]
    /\ signalsLeft = MaxSignals
    /\ reportsLeft = MaxReports
    /\ replyState = -1
    /\ supported = "unknown"
    /\ display = FALSE
    /\ loopPc = "none"
    /\ terminating = FALSE
    /\ dtorPc = "alive"
    /\ guiPc = "idle"
    /\ posted = << >>
    /\ lockOwner = "none"
    /\ ptyData = 0
    /\ ptyBudget = MaxPtyOutput
    /\ ptyClosed = FALSE
    /\ wakePending = FALSE
    /\ pendingInput = 0
    /\ pendingBufferCapture = FALSE
    /\ captureDialogOpen = FALSE
    /\ onClosedCalls = << >>
    /\ calledAfterClosed = FALSE
    /\ callsSinceWake = 0
    /\ flushers = {}
    /\ changeFontPermission = "Ask"
    /\ captureBufferPermission = "Ask"
    /\ allowKeyMappings = TRUE
    /\ lastActions = NoActions
    /\ rememberedPermissions = [r \in Roles |-> "none"]
    /\ pendingFontChange = FALSE
    /\ fontDialogOpen = FALSE
    /\ terminatedAndWaitingForKeyPress = FALSE
    /\ lastCall = NoCall
    /\ askedAgain = {}
    /\ nullDeref = {}
    /\ cursor = [line |-> 0, column |-> 0]
    /\ wrapPending = FALSE
    /\ autoWrap = TRUE
    /\ margin = [top |-> 0, bottom |-> PageLines]
    /\ altActive = FALSE
    /\ page = [i \in 1..PageLines |-> i]
    /\ history = << >>
    /\ evicted = << >>
    /\ discarded = {}
    /\ nextId = PageLines + 1
    /\ profileMaxHistory = 0
    /\ maxHistoryLineCount = profileMaxHistory

SpecLineOps == InitLineOps /\ [][LineOpsNext]_vars

\* A session just constructed, not started, without display, its terminal
\* configured from the profile.
InitSession ==
    /\ display = FALSE
    /\ loopPc = "none"
    /\ terminating = FALSE
    /\ dtorPc = "alive"
    /\ guiPc = "idle"
    /\ posted = << >>
    /\ lockOwner = "none"
    /\ ptyData = 0
    /\ ptyBudget = MaxPtyOutput
    /\ ptyClosed = FALSE
    /\ wakePending = FALSE
    /\ pendingInput = 0
    /\ pendingBufferCapture = FALSE
    /\ captureDialogOpen = FALSE
    /\ onClosedCalls = << >>
    /\ calledAfterClosed = FALSE
    /\ callsSinceWake = 0
    /\ flushers = {}
    /\ changeFontPermission = "Ask"
    /\ captureBufferPermission = "Ask"
    /\ allowKeyMappings = TRUE
    /\ lastActions = NoActions
    /\ rememberedPermissions = [r \in Roles |-> "none"]
    /\ pendingFontChange = FALSE
    /\ fontDialogOpen = FALSE
    /\ terminatedAndWaitingForKeyPress = FALSE
    /\ lastCall = NoCall
    /\ askedAgain = {}
    /\ nullDeref = {}
    /\ stdin = << >>
    /\ input = << >>
    /\ mt = NewMouseTracker
    /\ splitInside = FALSE
    /\ trackerPc = "main"
    /\ running = TRUE
    /\ termios = "saved"
    /\ modes = {}
    /\ disposition = [sig \in Signals |-> "default"]
    /\ signalsLeft = MaxSignals
    /\ reportsLeft = MaxReports
    /\ replyState = -1
    /\ supported = "unknown"
    /\ line = IdleLine
    /\ lineOp = NoLineOp
    /\ cursor = [line |-> 0, column |-> 0]
    /\ wrapPending = FALSE
    /\ autoWrap = TRUE
    /\ margin = [top |-> 0, bottom |-> PageLines]
    /\ altActive = FALSE
    /\ page = [i \in 1..PageLines |-> i]
    /\ history = << >>
    /\ evicted = << >>
    /\ discarded = {}
    /\ nextId = PageLines + 1
    /\ profileMaxHistory = 0
    /\ maxHistoryLineCount = profileMaxHistory

SpecSession == InitSession /\ [][SessionNext]_vars
\* The same session as inputs mapped to actions arrive.
SpecKeys == InitSession /\ [][KeysNext]_vars

\* The same session, buffering and flushing input.
SpecFlush == InitSession /\ [][FlushNext]_vars
\* The display's event loop runs a posted task once the display is idle,
\* however often other events come first; a flush that has begun ends; and
\* the PTY, read by the application, is ready for all buffered input at
\* some flush of every unending run of flushes.
SpecFlushFair ==
    /\ SpecFlush
    /\ SF_vars(flushInput_posted)
    /\ WF_vars(flushInput)
    /\ SF_vars(flushInput_writesAll)

\* The scheduler lets the thread of screenUpdateThread_ run, and the
\* thread in join() go on once that thread has ended.
SpecSessionFair ==
    InitSession /\ [][SessionNext]_vars /\ WF_vars(mainLoop) /\ WF_vars(destructor_join)

\* The screens of a terminal just constructed with the profile's history bound.
InitScreen ==
    /\ cursor = [line |-> 0, column |-> 0]
    /\ wrapPending = FALSE
    /\ autoWrap = TRUE
    /\ margin = [top |-> 0, bottom |-> PageLines]
    /\ altActive = FALSE
    /\ page = [i \in 1..PageLines |-> i]
    /\ history = << >>
    /\ evicted = << >>
    /\ discarded = {}
    /\ nextId = PageLines + 1
    /\ profileMaxHistory \in 0..MaxHistory
    /\ maxHistoryLineCount = profileMaxHistory
    /\ stdin = << >>
    /\ input = << >>
    /\ mt = NewMouseTracker
    /\ splitInside = FALSE
    /\ trackerPc = "main"
    /\ running = TRUE
    /\ termios = "saved"
    /\ modes = {}
    /\ disposition = [sig \in Signals |-> "default"]
    /\ signalsLeft = MaxSignals
    /\ reportsLeft = MaxReports
    /\ replyState = -1
    /\ supported = "unknown"
    /\ line = IdleLine
    /\ lineOp = NoLineOp
    /\ display = FALSE
    /\ loopPc = "none"
    /\ terminating = FALSE
    /\ dtorPc = "alive"
    /\ guiPc = "idle"
    /\ posted = << >>
    /\ lockOwner = "none"
    /\ ptyData = 0
    /\ ptyBudget = MaxPtyOutput
    /\ ptyClosed = FALSE
    /\ wakePending = FALSE
    /\ pendingInput = 0
    /\ pendingBufferCapture = FALSE
    /\ captureDialogOpen = FALSE
    /\ onClosedCalls = << >>
    /\ calledAfterClosed = FALSE
    /\ callsSinceWake = 0
    /\ flushers = {}
    /\ changeFontPermission = "Ask"
    /\ captureBufferPermission = "Ask"
    /\ allowKeyMappings = TRUE
    /\ lastActions = NoActions
    /\ rememberedPermissions = [r \in Roles |-> "none"]
    /\ pendingFontChange = FALSE
    /\ fontDialogOpen = FALSE
    /\ terminatedAndWaitingForKeyPress = FALSE
    /\ lastCall = NoCall
    /\ askedAgain = {}
    /\ nullDeref = {}

SpecScreen == InitScreen /\ [][ScreenNext]_vars

\* Guarded roles: the session is running, its I/O thread applies output of
\* the application, which makes the requests; the display thread decides.
InitPermission ==
    /\ display = FALSE
    /\ loopPc = "apply"
    /\ terminating = FALSE
    /\ dtorPc = "alive"
    /\ guiPc = "idle"
    /\ posted = << >>
    /\ lockOwner = "io"
    /\ ptyData = 0
    /\ ptyBudget = MaxPtyOutput - 1
    /\ ptyClosed = FALSE
    /\ wakePending = FALSE
    /\ pendingInput = 0
    /\ pendingBufferCapture = FALSE
    /\ captureDialogOpen = FALSE
    /\ onClosedCalls = << >>
    /\ calledAfterClosed = FALSE
    /\ callsSinceWake = 0
    /\ flushers = {}
    /\ changeFontPermission \in Permissions
    /\ captureBufferPermission \in Permissions
    /\ allowKeyMappings = TRUE
    /\ lastActions = NoActions
    /\ rememberedPermissions = [r \in Roles |-> "none"]
    /\ pendingFontChange = FALSE
    /\ fontDialogOpen = FALSE
    /\ terminatedAndWaitingForKeyPress = FALSE
    /\ lastCall = NoCall
    /\ askedAgain = {}
    /\ nullDeref = {}
    /\ stdin = << >>
    /\ input = << >>
    /\ mt = NewMouseTracker
    /\ splitInside = FALSE
    /\ trackerPc = "main"
    /\ running = TRUE
    /\ termios = "saved"
    /\ modes = {}
    /\ disposition = [sig \in Signals |-> "default"]
    /\ signalsLeft = MaxSignals
    /\ reportsLeft = MaxReports
    /\ replyState = -1
    /\ supported = "unknown"
    /\ line = IdleLine
    /\ lineOp = NoLineOp
    /\ cursor = [line |-> 0, column |-> 0]
    /\ wrapPending = FALSE
    /\ autoWrap = TRUE
    /\ margin = [top |-> 0, bottom |-> PageLines]
    /\ altActive = FALSE
    /\ page = [i \in 1..PageLines |-> i]
    /\ history = << >>
    /\ evicted = << >>
    /\ discarded = {}
    /\ nextId = PageLines + 1
    /\ profileMaxHistory = 0
    /\ maxHistoryLineCount = profileMaxHistory

SpecPermission == InitPermission /\ [][PermissionNext]_vars

\* Headless: the session of InitSession, to which no display is attached.
SpecHeadless == InitSession /\ [][HeadlessNext]_vars

(***************************************************************************)
(* Claims about the parser and the sequence builder (SpecParser)           *)
(***************************************************************************)
Consumed == SubSeq(input, 1, Len(input) - Len(stdin))

OscHandled == SelectSeq(mt.handled, LAMBDA h : h.category = "OSC")
DispatchedOscEvents == SelectSeq(mt.events, LAMBDA e : e.ev = "dispatchOSC")

\* What the handler is given for an OSC whose accumulated data is `data`.
OscAsHandled(data) ==
    LET r == extractCodePrefix(data) IN
    [category      |-> "OSC",
     leader        |-> 0,
     intermediates |-> Drop(data, r.skipCount),
     finalChar     |-> 0,
     params        |-> << [value |-> r.code, subs |-> << >>] >>]

\* C6: between startOSC and dispatchOSC the accumulated data is a prefix of
\* the bytes put, never longer than MaxOscLength, and nothing is dropped
\* while fewer than MaxOscLength bytes were put; every dispatchOSC runs the
\* handler exactly once, with the (possibly truncated) data.
C6_OscBounded ==
    /\ mt.state = "OscString" =>
          /\ IsPrefix(mt.intermediates, mt.oscPut)
          /\ Len(mt.intermediates) <= MaxOscLength
          /\ (Len(mt.oscPut) < MaxOscLength => mt.intermediates = mt.oscPut)
    /\ Len(OscHandled) = Len(DispatchedOscEvents)
    /\ Len(OscHandled) = Len(mt.oscSeen)
    /\ \A i \in 1..Len(OscHandled) :
          \E data \in { Take(mt.oscSeen[i], k) : k \in 0..MaxOscLength } :
              /\ (Len(mt.oscSeen[i]) < MaxOscLength => data = mt.oscSeen[i])
              /\ OscHandled[i] = OscAsHandled(data)

\* C6 witness: an OSC that was put more than MaxOscLength bytes was handled.
C6_Witness ==
    /\ Len(OscHandled) = 1
    /\ Len(mt.oscSeen[1]) > MaxOscLength
    /\ OscHandled[1].params[1].value = 8

RECURSIVE Split(_, _)
\* The pieces of s between the occurrences of sep.
Split(s, sep) ==
    IF \A i \in 1..Len(s) : s[i] # sep THEN << s >>
    ELSE LET i == CHOOSE k \in 1..Len(s) : s[k] = sep /\ \A j \in 1..(k - 1) : s[j] # sep
         IN  << SubSeq(s, 1, i - 1) >> \o Split(SubSeq(s, i + 1, Len(s)), sep)

\* The parameters a parameter string denotes: ';' separates parameters, ':'
\* separates a parameter from its sub-parameters, an empty field is 0.
ParamOf(field) ==
    LET q == Split(field, COLON) IN
    [value |-> DecimalValue(q[1]),
     subs  |-> [j \in 1..(Len(q) - 1) |-> DecimalValue(q[j + 1])]]
ParamsOf(ps) ==
    LET fields == Split(ps, SEMI) IN [i \in 1..Len(fields) |-> ParamOf(fields[i])]

P(v) == [value |-> v, subs |-> << >>]

\* C7: the sequence built from the param events of CSI <ps> m has the
\* parameters ps denotes, a field without digits being 0 and ':' keeping
\* the position of every sub-parameter; 38:2::R:G:B is one parameter 38
\* with sub-parameters (2, 0, R, G, B), 38;2;R;G;B five parameters.
C7_SubParameters ==
    (stdin = << >> /\ input \in (CsiInputs \cup SgrInputs)) =>
        /\ Len(mt.handled) = 1
        /\ mt.handled[1].category = "CSI"
        /\ mt.handled[1].params = ParamsOf(SubSeq(input, 3, Len(input) - 1))
        /\ \A r \in Colours, g \in Colours, b \in Colours :
              /\ input = SgrColon(r, g, b) =>
                    mt.handled[1].params = << [value |-> 38, subs |-> << 2, 0, r, g, b >>] >>
              /\ input = SgrSemi(r, g, b) =>
                    mt.handled[1].params = << P(38), P(2), P(r), P(g), P(b) >>

\* C7 witness: SGR 38:2::1:2:0 was parsed and handled.
C7_Witness ==
    /\ stdin = << >>
    /\ input = SgrColon(1, 2, 0)
    /\ mt.handled = << [category |-> "CSI", leader |-> 0, intermediates |-> << >>,
                        finalChar |-> CHAR_m,
                        params |-> << [value |-> 38, subs |-> << 2, 0, 1, 2, 0 >>] >>] >>

(***************************************************************************)
(* Claims about Line (SpecLine)                                            *)
(***************************************************************************)
\* C10: reset(flags, attributes) and fill(flags, attributes, codepoint,
\* width) leave size() as it was, for a trivial and for an inflated line;
\* after reset the line is trivial, empty() holds and its flags are exactly
\* the given ones.
C10_ResetFillKeepSize ==
    /\ lineOp.op \in {"reset", "fill0", "fill"} => size(line) = lineOp.sizeBefore
    /\ lineOp.op \in {"reset", "fill0"} =>
          /\ isTrivialBuffer(line)
          /\ empty(line)
          /\ line.flags = lineOp.flags

\* C10 witness: an inflated line with content, as wide as lines get, was reset.
C10_Witness ==
    /\ lineOp.op = "reset"
    /\ lineOp.wasInflated
    /\ ~lineOp.wasEmpty
    /\ lineOp.sizeBefore = MaxColumns
    /\ lineOp.flags = {"Wrapped"}
    /\ size(line) = MaxColumns

(***************************************************************************)
(* Claims about TerminalSession (SpecSession, SpecSessionFair)             *)
(***************************************************************************)
\* C2: onClosed is called at most once, and exactly once when mainLoop has
\* ended; the call is made by the main loop's thread after the loop has
\* stopped, because processInputOnce returned false or because
\* terminating_ was seen set; processInputOnce is never called after it.
C2_OnClosedOnce ==
    /\ Len(onClosedCalls) <= 1
    /\ (loopPc = "done") <=> (Len(onClosedCalls) = 1)
    /\ \A i \in 1..Len(onClosedCalls) :
          /\ onClosedCalls[i].thread = "io"
          /\ onClosedCalls[i].terminating \/ onClosedCalls[i].closed
    /\ onClosedCalls # << >> => ~InProcessInputOnce /\ loopPc # "call"
    /\ ~calledAfterClosed

\* C2 witness: the PTY was closed under a running session that nobody
\* destroys; the loop stopped and onClosed was called.
C2_Witness ==
    /\ loopPc = "done"
    /\ Len(onClosedCalls) = 1
    /\ onClosedCalls[1].closed /\ ~onClosedCalls[1].terminating
    /\ dtorPc = "alive"

\* C3: after the destructor has set terminating_ and called wakeupReader,
\* the main loop begins at most one more processInputOnce; and once the
\* destructor waits in join(), it eventually returns from it.
C3_DestructorStopsLoop ==
    /\ [](callsSinceWake <= 1)
    /\ (dtorPc = "join") ~> (dtorPc = "destroyed")

\* C3 witness: the loop began one processInputOnce after the wake-up, the
\* PTY being open and silent, and ended; join() has returned.
C3_Witness ==
    /\ dtorPc = "destroyed"
    /\ loopPc = "done"
    /\ callsSinceWake = 1
    /\ ~ptyClosed /\ ptyBudget = MaxPtyOutput

\* C4: code of the session running outside the main loop's thread holds
\* the terminal's lock whenever it reads or writes the screen, so it is
\* never in the screen while the main loop's thread applies bytes to it.
C4_ScreenUnderLock ==
    /\ guiInScreen => lockOwner = "gui"
    /\ ~(guiInScreen /\ ioInScreen)

\* C5, as stated: input is flushed only between two processInputOnce
\* iterations of the main loop, never while one is running.
C5_FlushBetweenIterations ==
    /\ guiPc = "flushInput" => ~InProcessInputOnce
    /\ \A f \in flushers : f.loop \notin {"read", "lock", "apply"}

\* C5, amended: input is flushed by flushInput running on the display
\* thread only, as a posted task or at the end of an allowed buffer
\* capture, never by the main loop's thread; flushInput is posted only
\* with a display.
C5_FlushOnDisplayThread ==
    /\ \A f \in flushers : f.thread = "gui"
    /\ posted # << >> => display
    /\ \A i \in 1..Len(posted) : posted[i] = "flushInput"

\* C5 witness: the display thread flushed input while the main loop's
\* thread was applying the bytes of a read.
C5_Witness ==
    /\ [thread |-> "gui", loop |-> "apply"] \in flushers
    /\ pendingInput = 0

CellsOf(l) == inflatedBuffer(l).storage.cells

\* The text occurs in the line starting exactly at column c.
Occurs(l, text, c) ==
    /\ 0 <= c
    /\ c + Len(text) <= Len(CellsOf(l))
    /\ \A i \in 1..Len(text) : CellsOf(l)[c + i].codepoint = text[i]

\* The cells from column c to the end of the line equal a non-empty proper
\* prefix of the text.
PrefixAtEnd(l, text, c) ==
    /\ 0 <= c /\ c < Len(CellsOf(l))
    /\ Len(CellsOf(l)) - c < Len(text)
    /\ \A i \in 1..(Len(CellsOf(l)) - c) : CellsOf(l)[c + i].codepoint = text[i]

\* The cells at the start of the line equal the last k characters of the
\* text, a non-empty proper suffix of it.
SuffixAtStart(l, text, k) ==
    /\ 0 < k /\ k < Len(text)
    /\ k <= Len(CellsOf(l))
    /\ \A i \in 1..k : CellsOf(l)[i].codepoint = text[Len(text) - k + i]

\* C11: when search(text, start) returns a column c, the text occurs in the
\* line starting exactly at c, c >= start, and no occurrence starts at any
\* column in [start, c); for trivial and for inflated lines.
C11_SearchFirstOccurrence ==
    (lineOp.op = "search" /\ lineOp.result.found) =>
        /\ Occurs(line, lineOp.text, lineOp.result.column)
        /\ lineOp.result.column >= lineOp.start
        /\ \A k \in lineOp.start..(lineOp.result.column - 1) :
               ~Occurs(line, lineOp.text, k)

\* C12: when searchReverse(text, start) returns a column c, the text occurs
\* in the line starting exactly at c, c <= start, and no occurrence starts
\* at any column in (c, start]; for trivial and for inflated lines.
C12_SearchReverseLastOccurrence ==
    (lineOp.op = "searchReverse" /\ lineOp.result.found) =>
        /\ Occurs(line, lineOp.text, lineOp.result.column)
        /\ lineOp.result.column <= lineOp.start
        /\ \A k \in (lineOp.result.column + 1)..lineOp.start :
               ~Occurs(line, lineOp.text, k)

\* C12 witness: a reverse search from a later column found the text at an
\* earlier one, on a trivial line (TRUE) or an inflated one (FALSE).
C12_Witness ==
    /\ lineOp.op = "searchReverse"
    /\ lineOp.result.found
    /\ lineOp.result.column < lineOp.start
    /\ Len(lineOp.text) > 1

\* C19: on an inflated line with no full occurrence at or after start,
\* search returns no column; remainingText is |text| - (size - c) for the
\* smallest c >= start from which the cells to the end of the line equal a
\* non-empty proper prefix of the text, and 0 when there is no such c.
C19_SearchPartialAtEnd ==
    (/\ lineOp.op = "search"
     /\ lineOp.wasInflated
     /\ \A k \in lineOp.start..(size(line) - 1) : ~Occurs(line, lineOp.text, k)) =>
        LET cs == { c \in lineOp.start..(size(line) - 1) :
                        PrefixAtEnd(line, lineOp.text, c) }
        IN  /\ ~lineOp.result.found
            /\ IF cs = {}
               THEN lineOp.result.remainingText = 0
               ELSE \E c \in cs :
                       /\ \A d \in cs : c <= d
                       /\ lineOp.result.remainingText =
                              Len(lineOp.text) - (size(line) - c)

\* C20: searchReverse on an inflated line returns the not-found result (no
\* column, remainingText 0) when the text has no full occurrence at or
\* before start and no non-empty proper suffix of it matches the cells at
\* the start of the line; a partial match reports as remainingText the
\* number of leading characters not matched, which is less than |text|.
C20_SearchReversePartialAtStart ==
    (/\ lineOp.op = "searchReverse"
     /\ lineOp.wasInflated
     /\ ~lineOp.result.found) =>
        /\ ((/\ \A k \in 0..lineOp.start : ~Occurs(line, lineOp.text, k)
             /\ \A k \in 1..Len(lineOp.text) : ~SuffixAtStart(line, lineOp.text, k))
            => lineOp.result = NotFound)
        /\ (lineOp.result.remainingText # 0 =>
               /\ lineOp.result.remainingText < Len(lineOp.text)
               /\ SuffixAtStart(line, lineOp.text,
                                Len(lineOp.text) - lineOp.result.remainingText))

\* The const member functions of Line the claim calls read-only.
ReadOnlyOps ==
    {"cells", "inflatedBuffer", "search", "searchReverse", "matchTextAt",
     "cellEmptyAt", "cellWidthAt", "empty", "size"}

\* C13: a line changes from the trivial to the inflated representation only
\* as the result of a write; the read-only operations (cells(), the const
\* inflatedBuffer(), search, searchReverse, matchTextAt, cellEmptyAt,
\* cellWidthAt, empty, size) leave the representation unchanged.
C13_OnlyWritesInflate ==
    /\ (lineOp.op \in ReadOnlyOps) => (isInflatedBuffer(line) = lineOp.wasInflated)
    /\ (lineOp.op # "none" /\ isInflatedBuffer(line) /\ ~lineOp.wasInflated) =>
           lineOp.op = "write"

\* C13 as amended: a line changes from trivial to inflated as the result of
\* a write or of a call of cells() or inflatedBuffer(), const or not, which
\* unpack it keeping its size and emptiness; search, searchReverse,
\* matchTextAt, cellEmptyAt, cellWidthAt, empty and size leave the
\* representation unchanged.
C13_WritesAndCellsInflate ==
    /\ (lineOp.op \in ReadOnlyOps \ {"cells", "inflatedBuffer"}) =>
           (isInflatedBuffer(line) = lineOp.wasInflated)
    /\ (lineOp.op \in {"cells", "inflatedBuffer"}) =>
           /\ isInflatedBuffer(line)
           /\ size(line) = lineOp.sizeBefore
           /\ empty(line) = lineOp.wasEmpty
    /\ (lineOp.op # "none" /\ isInflatedBuffer(line) /\ ~lineOp.wasInflated) =>
           lineOp.op \in {"write", "cells", "inflatedBuffer"}

\* C13 witness: cells() was called on a trivial line holding text, and the
\* line is inflated afterwards.
C13_Witness ==
    /\ lineOp.op = "cells"
    /\ ~lineOp.wasInflated
    /\ ~lineOp.wasEmpty
    /\ isInflatedBuffer(line)

(***************************************************************************)
(* Claims about guarded roles (SpecPermission).                            *)
(***************************************************************************)
\* The call of executeRole recorded in c had permission: an effect needs
\* allow, and allow comes from the configuration's Allow, a remembered
\* "allow" or the user's Yes or YesToAll.
Permitted(c) ==
    /\ c.effect => c.allow
    /\ c.allow =>
          \/ c.source = "config" /\ changeFontPermission = "Allow"
          \/ c.source = "remembered" /\ c.remembered = "allow"
          \/ c.source = "user" /\ c.button \in {"Yes", "YesToAll"}
    /\ ~c.allow => ~c.effect

\* C14: a font change reaches the display (setFonts) and a buffer capture
\* the screen (captureBuffer) only in a call with allow = true, which comes
\* only from configuration Allow, a remembered "allow" or the user's Yes;
\* every call, allowed or not, leaves no request of its role pending, and
\* with allow = false nothing reaches fonts or screen.
C14_GuardedByPermission ==
    [][lastCall' # lastCall =>
          /\ Permitted(lastCall')
          /\ lastCall'.role = "ChangeFont" => ~pendingFontChange'
          /\ lastCall'.role = "CaptureBuffer" => ~pendingBufferCapture']_vars

\* C14 witness: a font change was applied on a remembered "allow", after
\* the user's YesToAll.
C14_Witness ==
    /\ lastCall.role = "ChangeFont"
    /\ lastCall.effect
    /\ lastCall.source = "remembered"
    /\ rememberedPermissions["ChangeFont"] = "allow"

\* C15: once the user has answered a role's dialog with remember (YesToAll
\* or NoToAll), every later request for the role is decided with the
\* remembered answer and the user is not asked again; for both roles.
C15_RememberedAnswerDecides ==
    /\ askedAgain = {}
    /\ (lastCall.role # "none" /\ lastCall.remembered # "none") =>
           /\ lastCall.source = "remembered"
           /\ lastCall.allow = (lastCall.remembered = "allow")

\* C16: a session with no display attached never dereferences the display:
\* every callback and operation skips its display work or returns when
\* display_ is null, in every state (PTY closed and waiting for a key press
\* included).
C16_HeadlessNeverDereferences ==
    ~display => nullDeref = {}

(***************************************************************************)
(* Claims about the MouseTracker program (SpecTracker, SpecTrackerFair).   *)
(***************************************************************************)
\* C17: when the program has ended, by return from main() or by SIGINT or
\* SIGTERM at any point of run(), the terminal settings are those saved at
\* construction and no mode the constructor enabled (1003, 1006, 2022,
\* hidden cursor) is still enabled.
C17_RestoredAtExit ==
    trackerPc \in {"exited", "killed"} => (termios = "saved" /\ modes = {})

\* The last byte of the terminal's reply has been read.
ReplyRead ==
    /\ replyState # -1
    /\ \A i \in 1..Len(stdin) : stdin[i] # CHAR_y

\* C18: after the query, once the reply CSI ? 2022 ; s $ y has been read,
\* however it was split across reads and whatever mouse reports came
\* before it, _decrpm holds (2022, s), so the loop of
\* checkPassiveMouseTrackingSupport ends; it ends only so, and what it
\* prints is "supported" exactly when s is 1 or 2.
C18_CheckEndsWithReply ==
    /\ [](ReplyRead => mt.decrpm = << 2022, replyState >>)
    /\ [](trackerPc \in {"report", "loop", "loopRead", "dtor", "exited"} =>
            (replyState \in DecrpmStates /\ mt.decrpm = << 2022, replyState >>))
    /\ [](supported # "unknown" =>
            ((supported = "supported") <=> (replyState \in {1, 2})))
    /\ ((replyState # -1) ~> (trackerPc \notin {"check", "checkRead"}))

\* C18 witness: a mouse report was handled, then the reply with state 2,
\* some read having ended inside a sequence; the check printed "supported".
C18_Witness ==
    /\ trackerPc = "loop"
    /\ supported = "supported"
    /\ splitInside
    /\ Len(mt.handled) = 2
    /\ mt.handled[1].leader = LT
    /\ mt.decrpm = << 2022, 2 >>

(***************************************************************************)
(* Claims about reading a line (SpecSearch).                               *)
(***************************************************************************)
\* C21: matchTextAt(text, c) is true exactly when the content of the line
\* from column c on begins with the text, for every column c of the line,
\* the same for a trivial line and for an inflated line.
C21_MatchTextAtExact ==
    lineOp.op = "matchTextAt" =>
        (lineOp.result.found <=> Occurs(line, lineOp.text, lineOp.start))

\* C22: empty() is true exactly when cellEmptyAt(c) holds for every column
\* c in [0, size()), on trivial and on inflated lines.
C22_EmptyIffAllCellsEmpty ==
    lineOp.op = "empty" =>
        (lineOp.wasEmpty <=> \A c \in 0..(size(line) - 1) : cellEmptyAt(line, c))

(***************************************************************************)
(* Claims about flags, cell access and fill of a line (SpecLineOps).       *)
(***************************************************************************)
\* C23: for every column the preconditions of useCellAt accept
\* (0 <= column <= size()), the reference returned names a cell inside the
\* line's cell buffer, whose cells have the indices 0 .. size() - 1.
C23_UseCellAtInsideBuffer ==
    lineOp.op = "useCellAt" =>
        (0 <= lineOp.answer /\ lineOp.answer < Len(line.storage.cells))

\* C24: wrappableFlag(), wrappedFlag() and markedFlag() each return their
\* own flag exactly when it is set on the line and LineFlags::None
\* otherwise, whatever the line's other flags are.
C24_FlagGetters ==
    lineOp.op \in {"wrappableFlag", "wrappedFlag", "markedFlag"} =>
        lineOp.answer = (lineOp.before.flags \cap lineOp.flags)

\* C25: inheritableFlags() returns the line's flags restricted to Wrappable
\* and Marked and never contains Wrapped; setWrappable, setWrapped and
\* setMarked set or clear the named flag and leave the other flags and the
\* line's storage as they were.
C25_InheritableAndSetFlag ==
    /\ lineOp.op = "inheritableFlags" =>
          /\ lineOp.answer = lineOp.before.flags \cap {"Wrappable", "Marked"}
          /\ "Wrapped" \notin lineOp.answer
          /\ line = lineOp.before
    /\ lineOp.op = "setFlag" =>
          /\ (lineOp.flags \subseteq line.flags) <=> lineOp.enable
          /\ line.flags \ lineOp.flags = lineOp.before.flags \ lineOp.flags
          /\ line.storage = lineOp.before.storage

\* C25 witness: Wrapped was cleared on an inflated line with content that
\* has all three flags, and inheritableFlags was asked of a wrapped line.
C25_Witness ==
    \/ /\ lineOp.op = "setFlag"
       /\ lineOp.flags = {"Wrapped"}
       /\ ~lineOp.enable
       /\ lineOp.before.flags = AllLineFlags
       /\ lineOp.wasInflated
       /\ ~lineOp.wasEmpty
       /\ line.flags = {"Wrappable", "Marked"}
    \/ /\ lineOp.op = "inheritableFlags"
       /\ lineOp.before.flags = AllLineFlags
       /\ lineOp.answer = {"Wrappable", "Marked"}

ConfigDecides(cfg, role, dialogOpen) ==
    cfg \in {"Deny", "Allow"} =>
        /\ ~dialogOpen
        /\ lastCall.role = role =>
              /\ lastCall.source = "config"
              /\ lastCall.allow = (cfg = "Allow")
              /\ lastCall.effect = (lastCall.pending /\ cfg = "Allow")

\* C27: when the profile's permission for a guarded role is Deny, a request
\* for the role is discarded without asking the user and without
\* consulting remembered choices; when it is Allow the request is executed
\* without asking; for font changes and for buffer captures.
C27_ConfigDecidesBothRoles ==
    /\ ConfigDecides(changeFontPermission, "ChangeFont", fontDialogOpen)
    /\ ConfigDecides(captureBufferPermission, "CaptureBuffer", captureDialogOpen)

\* The request of the role is pending.
Pending(role) ==
    IF role = "ChangeFont" THEN pendingFontChange ELSE pendingBufferCapture

\* C28: every answer consumes the pending request.  After a call of
\* applyPendingFontChange or executePendingBufferCapture, whether it
\* allowed, denied, or came from the dialog's rejection (which denies and
\* remembers nothing), no request of the role is pending; the call changed
\* the font or captured the buffer only if a request was pending before
\* it, so a request is executed at most once.
C28_AnswerConsumesRequest ==
    [][lastCall' # lastCall =>
          /\ lastCall'.role \in Roles
          /\ ~(IF lastCall'.role = "ChangeFont"
                THEN pendingFontChange' ELSE pendingBufferCapture')
          /\ lastCall'.pending = Pending(lastCall'.role)
          /\ lastCall'.effect = (Pending(lastCall'.role) /\ lastCall'.allow)
          /\ lastCall'.button = "Abort" =>
                /\ ~lastCall'.allow
                /\ ~lastCall'.effect
                /\ rememberedPermissions' = rememberedPermissions]_vars

\* C28 witness: a font change was allowed by the configuration while no
\* request was pending, an earlier call having consumed it; no font was
\* changed.
C28_Witness ==
    /\ lastCall.role = "ChangeFont"
    /\ lastCall.source = "config"
    /\ lastCall.allow
    /\ ~lastCall.pending
    /\ ~lastCall.effect
    /\ ~pendingFontChange

(***************************************************************************)
(* Claims about executeAllActions (SpecKeys).                              *)
(***************************************************************************)
\* The actions of the list that apply, given whether a hyperlink is there.
Applying(actions, hyperlink) ==
    { i \in 1..Len(actions) : actions[i] # "FollowHyperlink" \/ hyperlink }

\* C29: while key mappings are disabled, executeAllActions executes no
\* action other than ToggleAllKeyMaps: a list with ToggleAllKeyMaps in it
\* executes the toggle alone, which enables the mappings again, and any
\* other list executes nothing and returns 0.  While the mappings are
\* enabled, all actions of the list run in the list's order and the value
\* returned is the number of actions that applied.
C29_KeyMappingsGate ==
    lastActions.called =>
        IF lastActions.allowedBefore
        THEN /\ lastActions.executed = lastActions.actions
             /\ lastActions.result =
                    Cardinality(Applying(lastActions.actions, lastActions.hyperlink))
        ELSE IF containsToggleKeybind(lastActions.actions)
             THEN /\ lastActions.executed = << "ToggleAllKeyMaps" >>
                  /\ allowKeyMappings
             ELSE /\ lastActions.executed = << >>
                  /\ lastActions.result = 0
                  /\ ~allowKeyMappings

\* C29 witness: with the mappings disabled, a list of three actions with
\* ToggleAllKeyMaps last was given; the toggle alone ran and the mappings
\* are enabled.
C29_Witness ==
    /\ lastActions.called
    /\ ~lastActions.allowedBefore
    /\ lastActions.actions = << "ScrollToTop", "FollowHyperlink", "ToggleAllKeyMaps" >>
    /\ lastActions.executed = << "ToggleAllKeyMaps" >>
    /\ allowKeyMappings

============================================================================
